---- MODULE Spec2Model ----
(***************************************************************************)
(* Model of the isometric robot game: the IsometricPlayer entity           *)
(* (src/js/iso_handler.js), the scene that owns it and the action queue    *)
(* with the public GameAPI (src/js/isoMoveExample2.js), and the level      *)
(* table of the level manager (src/js/level_manager.js).                   *)
(*                                                                         *)
(* JavaScript runs one task at a time.  Every action below is one          *)
(* synchronous stretch of code: from a caller's API call, a timer or a     *)
(* tween completion, or the resumption of an await, up to the next await.  *)
(***************************************************************************)
EXTENDS Integers, Sequences, FiniteSets, TLC

\* ---------------------------------------------------------------- bounds
\* total number of GameAPI calls issued by all callers together
MaxCalls == 3
\* largest steps argument passed to moveForward / moveBackward
MaxSteps == 2
\* size of the tile grid of the loaded map (the map asset is not part of src)
MapWidth == 4
MapHeight == 8

\* cells of the map asset that carry a tile on the blocking 'Props' layer
PropsCells == {<<1, 4>>, <<3, 7>>}

\* ------------------------------------------------------- level manager data
maxLevels == 8

\* initializeLevelData: levels 1 and 2 are configured, 3..8 are stubs that
\* have a title and instructions only (no playerStart, no itemSpawns).
LevelHasStart(l) == l \in {1, 2}

LevelStart(l) ==
  IF l = 1 THEN [x |-> 1, y |-> 6, direction |-> 0]
  ELSE [x |-> 1, y |-> 4, direction |-> 0]

\* levelData[l].itemSpawns, as <<x, y>> pairs in list order
LevelItemSpawns(l) ==
  IF l = 1 THEN <<(<<0, 7>>)>> ELSE <<(<<0, 7>>), (<<0, 5>>)>>

\* levelData[l].goalConveyors
LevelGoals(l) ==
  IF l = 1 THEN {<<7, 0>>} ELSE {<<7, 7>>, <<7, 5>>}

\* levelData[l].conveyorLayer
LevelConveyorLayer(l) == "Tile Layer 2"

\* levels 3..8 have neither goalConveyors nor conveyorLayer
LevelHasGoals(l) == l \in {1, 2}

\* levels the model lets the level manager hold
LevelInputs == {1, 3}

\* ------------------------------------------------- persisted progress
\* A progress value as JSON.parse returns it: null, or an object that may
\* or may not have the currentLevel and completed properties.
Progress(cur, done) ==
  [isNull |-> FALSE, hasCurrent |-> TRUE, currentLevel |-> cur,
   hasCompleted |-> TRUE, completed |-> done]

DefaultProgress == Progress(1, <<>>)

NullProgress ==
  [isNull |-> TRUE, hasCurrent |-> FALSE, currentLevel |-> 0,
   hasCompleted |-> FALSE, completed |-> <<>>]

\* an object that has currentLevel only
OnlyCurrent(cur) ==
  [isNull |-> FALSE, hasCurrent |-> TRUE, currentLevel |-> cur,
   hasCompleted |-> FALSE, completed |-> <<>>]

\* localStorage.getItem('level_progress'): no item, a text that is not
\* JSON, or the JSON text of a value
NoItem == [kind |-> "missing", value |-> NullProgress]
TextItem == [kind |-> "text", value |-> NullProgress]

\* JSON.stringify(progress) as stored by localStorage.setItem
Stringify(progress) == [kind |-> "json", value |-> progress]

\* getProgress(): the default when there is no item or JSON.parse raises,
\* else whatever JSON.parse returns
getProgress(item) ==
  IF item.kind = "missing" THEN DefaultProgress
  ELSE IF item.kind = "text" THEN DefaultProgress
  ELSE item.value

\* new LevelManager(): progress.currentLevel || 1; reading a property of
\* null raises a TypeError
NewLevelManager(item) ==
  LET progress == getProgress(item)
  IN IF progress.isNull
     THEN [raised |-> TRUE, currentLevel |-> 0]
     ELSE [raised |-> FALSE,
           currentLevel |-> IF progress.hasCurrent /\ progress.currentLevel # 0
                            THEN progress.currentLevel ELSE 1]

\* saveProgress that writes a fresh record instead of updating the stored one
saveProgressFresh(cur, item) ==
  [raised |-> FALSE, item |-> Stringify(Progress(cur, <<>>))]

\* saveProgress(): read the record, set its currentLevel, write it back
saveProgress(cur, item) ==
  LET progress == getProgress(item)
  IN IF progress.isNull
     THEN [raised |-> TRUE, item |-> item]
     ELSE [raised |-> FALSE,
           item |-> Stringify([progress EXCEPT !.hasCurrent = TRUE,
                                               !.currentLevel = cur])]

\* nextLevel with the bound tested by <=
nextLevelPastEnd(cur, item) ==
  IF cur <= maxLevels
  THEN [ret |-> TRUE, currentLevel |-> cur + 1,
        raised |-> saveProgress(cur + 1, item).raised,
        item |-> saveProgress(cur + 1, item).item]
  ELSE [ret |-> FALSE, currentLevel |-> cur, raised |-> FALSE, item |-> item]

\* nextLevel()
nextLevelOn(cur, item) ==
  IF cur < maxLevels
  THEN [ret |-> TRUE, currentLevel |-> cur + 1,
        raised |-> saveProgress(cur + 1, item).raised,
        item |-> saveProgress(cur + 1, item).item]
  ELSE [ret |-> FALSE, currentLevel |-> cur, raised |-> FALSE, item |-> item]

\* goToLevel without the upper bound
goToLevelNoUpperBound(cur, item, levelNumber) ==
  IF levelNumber >= 1
  THEN [ret |-> TRUE, currentLevel |-> levelNumber,
        raised |-> saveProgress(levelNumber, item).raised,
        item |-> saveProgress(levelNumber, item).item]
  ELSE [ret |-> FALSE, currentLevel |-> cur, raised |-> FALSE, item |-> item]

\* goToLevel(levelNumber)
goToLevelOn(cur, item, levelNumber) ==
  IF levelNumber >= 1 /\ levelNumber <= maxLevels
  THEN [ret |-> TRUE, currentLevel |-> levelNumber,
        raised |-> saveProgress(levelNumber, item).raised,
        item |-> saveProgress(levelNumber, item).item]
  ELSE [ret |-> FALSE, currentLevel |-> cur, raised |-> FALSE, item |-> item]

\* Array.prototype.sort((a, b) => a - b) on numbers
InsertNumber(sorted, n) ==
  LET k == Cardinality({j \in 1..Len(sorted) : sorted[j] <= n})
  IN SubSeq(sorted, 1, k) \o <<n>> \o SubSeq(sorted, k + 1, Len(sorted))

RECURSIVE SortNumbers(_)
SortNumbers(seq) ==
  IF seq = <<>> THEN <<>>
  ELSE InsertNumber(SortNumbers(SubSeq(seq, 1, Len(seq) - 1)), seq[Len(seq)])

Includes(seq, n) == \E k \in 1..Len(seq) : seq[k] = n

\* completeLevel without the includes test
completeLevelAlways(item, levelNumber) ==
  LET progress == getProgress(item)
  IN IF progress.isNull \/ ~progress.hasCompleted
     THEN [raised |-> TRUE, item |-> item]
     ELSE [raised |-> FALSE,
           item |-> Stringify([progress EXCEPT !.completed =
                                 SortNumbers(Append(progress.completed, levelNumber))])]

\* completeLevel(levelNumber); progress.completed.includes raises a
\* TypeError when progress is null or has no completed list
completeLevelOn(item, levelNumber) ==
  LET progress == getProgress(item)
  IN IF progress.isNull \/ ~progress.hasCompleted
     THEN [raised |-> TRUE, item |-> item]
     ELSE IF ~Includes(progress.completed, levelNumber)
     THEN [raised |-> FALSE,
           item |-> Stringify([progress EXCEPT !.completed =
                                 SortNumbers(Append(progress.completed, levelNumber))])]
     ELSE [raised |-> FALSE, item |-> item]

\* ------------------------------------------- command-list interpretation
\* longest command list the translation service returns
MaxCommands == 2
\* longest program chain (blocks after the start block) before generation
MaxChain == 1

\* a command object; steps / times 0 stands for an absent property
Cmd(action, direction, steps, times) ==
  [action |-> action, direction |-> direction, steps |-> steps, times |-> times]

CommandInputs ==
  {Cmd("move", "", 0, 0), Cmd("move", "", 2, 0),
   Cmd("rotate", "left", 0, 0), Cmd("rotate", "clockwise", 0, 0),
   Cmd("rotate", "up", 0, 0),
   Cmd("pick", "", 0, 0), Cmd("release", "", 0, 0),
   Cmd("repeat", "", 0, 3), Cmd("jump", "", 0, 0)}

Block(type, value) == [type |-> type, value |-> value]
NoBlock == Block("", 0)

\* the if / else-if chain of the forEach body that turns rotate commands
\* of an unknown direction into rotate_right blocks
BlockForRotateDefault(cmd) ==
  IF cmd.action = "move"
  THEN Block("move_forward", IF cmd.steps # 0 THEN cmd.steps ELSE 1)
  ELSE IF cmd.action = "rotate" /\ cmd.direction \in {"counter-clockwise", "left"}
  THEN Block("rotate_left", 0)
  ELSE IF cmd.action = "rotate"
  THEN Block("rotate_right", 0)
  ELSE IF cmd.action = "pick" THEN Block("pick_object", 0)
  ELSE IF cmd.action = "release" THEN Block("release_object", 0)
  ELSE IF cmd.action = "repeat"
  THEN Block("controls_repeat", IF cmd.times # 0 THEN cmd.times ELSE 2)
  ELSE NoBlock

\* the if / else-if chain of the forEach body: the block made for a
\* command, NoBlock for block === null
BlockFor(cmd) ==
  IF cmd.action = "move"
  THEN Block("move_forward", IF cmd.steps # 0 THEN cmd.steps ELSE 1)
  ELSE IF cmd.action = "rotate" /\ cmd.direction \in {"counter-clockwise", "left"}
  THEN Block("rotate_left", 0)
  ELSE IF cmd.action = "rotate" /\ cmd.direction \in {"clockwise", "right"}
  THEN Block("rotate_right", 0)
  ELSE IF cmd.action = "pick" THEN Block("pick_object", 0)
  ELSE IF cmd.action = "release" THEN Block("release_object", 0)
  ELSE IF cmd.action = "repeat"
  THEN Block("controls_repeat", IF cmd.times # 0 THEN cmd.times ELSE 2)
  ELSE NoBlock

\* commands.forEach: every block made is connected behind the last block
\* of the chain and becomes the last block
RECURSIVE AppendBlocks(_, _, _)
AppendBlocks(blocks, commands, k) ==
  IF k > Len(commands) THEN blocks
  ELSE AppendBlocks(IF BlockFor(commands[k]) # NoBlock
                    THEN Append(blocks, BlockFor(commands[k]))
                    ELSE blocks,
                    commands, k + 1)

\* ------------------------------------------------ tile-grid demo (game1.js)
\* the tile rows of the demo map; 5 is a wall
data ==
  << <<5, 5, 5, 5, 5, 5, 5, 5, 5, 5>>,
     <<5, 4, 4, 4, 4, 4, 4, 4, 4, 5>>,
     <<5, 4, 4, 5, 5, 4, 5, 5, 4, 5>>,
     <<5, 5, 4, 4, 4, 4, 5, 4, 4, 5>>,
     <<5, 5, 4, 4, 4, 4, 4, 4, 4, 5>>,
     <<5, 4, 4, 4, 4, 4, 4, 4, 4, 5>>,
     <<5, 5, 5, 4, 4, 4, 4, 4, 4, 5>>,
     <<5, 4, 4, 4, 4, 4, 4, 4, 4, 5>>,
     <<5, 4, 4, 4, 4, 4, 4, 4, 4, 5>>,
     <<5, 5, 5, 5, 5, 5, 5, 5, 5, 5>> >>

COLS == Len(data[1])
ROWS == Len(data)

\* dir = 0: up, 1: right, 2: down, 3: left
DIR2VEC ==
  << [dx |-> 0, dy |-> 0 - 1], [dx |-> 1, dy |-> 0],
     [dx |-> 0, dy |-> 1], [dx |-> 0 - 1, dy |-> 0] >>

inBounds(tx, ty) == tx >= 0 /\ ty >= 0 /\ tx < COLS /\ ty < ROWS
isWall(tx, ty) == data[ty + 1][tx + 1] = 5

\* the globals the scene manages
DemoStart ==
  [dir |-> 0, px |-> 1, py |-> 1, sx |-> 3, sy |-> 1,
   isTowing |-> FALSE, isMoving |-> FALSE]

\* _toggleTow that grabs without looking at the tile behind the player
toggleTowStartNoBackCheck(g) ==
  IF g.isTowing
  THEN [g |-> [g EXCEPT !.isTowing = FALSE], wait |-> "ready", val |-> TRUE]
  ELSE LET v == DIR2VEC[g.dir + 1]
           isFront == g.sx = g.px + v.dx /\ g.sy = g.py + v.dy
           backX == g.px - v.dx
           backY == g.py - v.dy
       IN IF ~isFront
          THEN [g |-> g, wait |-> "ready", val |-> FALSE]
          ELSE [g |-> [g EXCEPT !.sx = backX, !.sy = backY],
                wait |-> "grab", val |-> TRUE]

\* _toggleTow() up to the promise it returns: detach and resolve(true),
\* resolve(false), or move the star behind the player and start the tween
\* whose onComplete sets isTowing and resolves true
toggleTowStart(g) ==
  IF g.isTowing
  THEN [g |-> [g EXCEPT !.isTowing = FALSE], wait |-> "ready", val |-> TRUE]
  ELSE LET v == DIR2VEC[g.dir + 1]
           isFront == g.sx = g.px + v.dx /\ g.sy = g.py + v.dy
           backX == g.px - v.dx
           backY == g.py - v.dy
       IN IF ~isFront
          THEN [g |-> g, wait |-> "ready", val |-> FALSE]
          ELSE IF ~inBounds(backX, backY) \/ isWall(backX, backY)
          THEN [g |-> g, wait |-> "ready", val |-> FALSE]
          ELSE [g |-> [g EXCEPT !.sx = backX, !.sy = backY],
                wait |-> "grab", val |-> TRUE]

\* _tryStep(sign) up to the promise it returns
tryStepStart(g, sign) ==
  LET v == DIR2VEC[g.dir + 1]
      tx == g.px + v.dx * sign
      ty == g.py + v.dy * sign
  IN IF g.isMoving THEN [g |-> g, wait |-> "ready", val |-> FALSE, tx |-> tx, ty |-> ty]
     ELSE IF ~inBounds(tx, ty) \/ isWall(tx, ty)
     THEN [g |-> g, wait |-> "ready", val |-> FALSE, tx |-> tx, ty |-> ty]
     ELSE IF ~g.isTowing /\ g.sx = tx /\ g.sy = ty
     THEN [g |-> g, wait |-> "ready", val |-> FALSE, tx |-> tx, ty |-> ty]
     ELSE [g |-> [g EXCEPT !.isMoving = TRUE],
           wait |-> IF g.isTowing THEN "step2" ELSE "step1",
           val |-> TRUE, tx |-> tx, ty |-> ty]

\* the completion of a step: onComplete of the single tween, or finish()
\* called for the second time
tryStepDone(g, towed, tx, ty) ==
  IF towed
  THEN [g EXCEPT !.sx = g.px, !.sy = g.py, !.px = tx, !.py = ty, !.isMoving = FALSE]
  ELSE [g EXCEPT !.px = tx, !.py = ty, !.isMoving = FALSE]

\* _rotate(delta) up to the promise it returns
demoRotate(g, delta) == [g EXCEPT !.dir = (g.dir + (IF delta > 0 THEN 1 ELSE 3)) % 4]

demoDirMap == [up |-> 0, right |-> 1, down |-> 2, left |-> 3]

\* _face(dirName)
demoFace(g, dirName) ==
  IF dirName \notin DOMAIN demoDirMap THEN [g |-> g, val |-> FALSE]
  ELSE [g |-> [g EXCEPT !.dir = demoDirMap[dirName]], val |-> TRUE]

\* _setPosition(tx, ty)
demoSetPosition(g, tx, ty) ==
  IF ~inBounds(tx, ty) \/ isWall(tx, ty) THEN [g |-> g, val |-> FALSE]
  ELSE [g |-> [g EXCEPT !.px = tx, !.py = ty], val |-> TRUE]

\* ------------------------------------------------------------- tilemap
\* row-major tile ids of the 'Props' layer of the map (0 = empty)
PropsData ==
  [idx \in 0..(MapWidth * MapHeight - 1) |->
     IF <<idx % MapWidth, idx \div MapWidth>> \in PropsCells THEN 5 ELSE 0]

\* cells of the map asset that carry a tile on the conveyor layer
ConveyorCells == {<<0, 5>>, <<0, 7>>}

LayerNames == {"Floor", "Props", "Tile Layer 2"}

\* build(): a sprite exists on a layer for exactly the cells with tileId > 0
LayerSprites(layerName) ==
  IF layerName = "Props"
  THEN {c \in (0..(MapWidth - 1)) \X (0..(MapHeight - 1)) :
          PropsData[c[2] * MapWidth + c[1]] > 0}
  ELSE IF layerName = "Floor"
  THEN (0..(MapWidth - 1)) \X (0..(MapHeight - 1))
  ELSE IF layerName = "Tile Layer 2"
  THEN ConveyorCells
  ELSE {}

\* getTileAt(...) !== null
hasTileAt(gridX, gridY, layerName) ==
  /\ layerName \in LayerNames
  /\ <<gridX, gridY>> \in LayerSprites(layerName)

\* ------------------------------------------------------ entity (pure parts)
NewPlayer(gridX, gridY, startDirection) ==
  [gridX |-> gridX, gridY |-> gridY, direction |-> startDirection,
   isMoving |-> FALSE,
   carriedItem |-> 0]  \* index of the item carried, 0 for none

\* Array.prototype.indexOf on a 4-element array, 0-based, -1 when absent
IndexOf(seq, v) ==
  IF \E k \in 1..Len(seq) : seq[k] = v
  THEN (CHOOSE k \in 1..Len(seq) : seq[k] = v /\ \A j \in 1..(k - 1) : seq[j] # v) - 1
  ELSE -1

leftSequence == <<0, 1, 3, 2>>
rightSequence == <<0, 2, 3, 1>>

\* rotate with the two turn sequences exchanged
RotateDirMirrored(direction, delta) ==
  IF delta < 0
  THEN rightSequence[((IndexOf(rightSequence, direction) + 1) % 4) + 1]
  ELSE leftSequence[((IndexOf(leftSequence, direction) + 1) % 4) + 1]

\* rotate that turns through leftSequence whatever the sign of delta
RotateDirOneSequence(direction, delta) ==
  leftSequence[((IndexOf(leftSequence, direction) + 1) % 4) + 1]

\* rotate(delta): the new direction
RotateDir(direction, delta) ==
  IF delta < 0
  THEN leftSequence[((IndexOf(leftSequence, direction) + 1) % 4) + 1]
  ELSE rightSequence[((IndexOf(rightSequence, direction) + 1) % 4) + 1]

dirMap ==
  [south |-> 0, down |-> 0, east |-> 1, right |-> 1,
   west |-> 2, left |-> 2, north |-> 3, up |-> 3]

\* names every plain object inherits from Object.prototype; the value found
\* under such a name is a function, which is no direction
ObjectPrototypeNames == {"constructor", "toString", "hasOwnProperty"}
InheritedFunction == 0 - 1

\* face(dirName): `dirName in dirMap` also holds for inherited names
faceDir(direction, dirName) ==
  IF dirName \in DOMAIN dirMap
  THEN [ret |-> TRUE, direction |-> dirMap[dirName]]
  ELSE IF dirName \in ObjectPrototypeNames
  THEN [ret |-> TRUE, direction |-> InheritedFunction]
  ELSE [ret |-> FALSE, direction |-> direction]

\* _getForwardPosition with the east and west cases exchanged
ForwardPositionFlipped(p) ==
  CASE p.direction = 0 -> [x |-> p.gridX, y |-> p.gridY + 1]
    [] p.direction = 1 -> [x |-> p.gridX - 1, y |-> p.gridY]
    [] p.direction = 2 -> [x |-> p.gridX + 1, y |-> p.gridY]
    [] p.direction = 3 -> [x |-> p.gridX, y |-> p.gridY - 1]
    [] OTHER -> [x |-> p.gridX, y |-> p.gridY]

\* _getForwardPosition / _getBackwardPosition
ForwardPosition(p) ==
  CASE p.direction = 0 -> [x |-> p.gridX, y |-> p.gridY + 1]
    [] p.direction = 1 -> [x |-> p.gridX + 1, y |-> p.gridY]
    [] p.direction = 2 -> [x |-> p.gridX - 1, y |-> p.gridY]
    [] p.direction = 3 -> [x |-> p.gridX, y |-> p.gridY - 1]
    [] OTHER -> [x |-> p.gridX, y |-> p.gridY]

BackwardPosition(p) ==
  CASE p.direction = 0 -> [x |-> p.gridX, y |-> p.gridY - 1]
    [] p.direction = 1 -> [x |-> p.gridX - 1, y |-> p.gridY]
    [] p.direction = 2 -> [x |-> p.gridX + 1, y |-> p.gridY]
    [] p.direction = 3 -> [x |-> p.gridX, y |-> p.gridY + 1]
    [] OTHER -> [x |-> p.gridX, y |-> p.gridY]

\* moveTo without the check of the 'Props' layer
MoveToRefusedNoProps(p, gridX, gridY) ==
  \/ p.isMoving
  \/ gridX < 0 \/ gridX >= MapWidth \/ gridY < 0 \/ gridY >= MapHeight

\* moveTo: the three early returns before any assignment
MoveToRefused(p, gridX, gridY) ==
  \/ p.isMoving
  \/ gridX < 0 \/ gridX >= MapWidth \/ gridY < 0 \/ gridY >= MapHeight
  \/ hasTileAt(gridX, gridY, "Props")

\* moveTo that assigns the grid position when the tween is started
MoveToAcceptEarly(p, gridX, gridY) ==
  [p EXCEPT !.gridX = gridX, !.gridY = gridY, !.isMoving = TRUE]

\* moveTo: the state right after an accepted call (tween not yet complete)
\* an accepted moveTo that also turns the entity to face south
MoveToAcceptFacing(p, gridX, gridY) ==
  [p EXCEPT !.isMoving = TRUE, !.direction = 0]

MoveToAccept(p, gridX, gridY) == [p EXCEPT !.isMoving = TRUE]

\* an onComplete callback that does not clear the in-transition flag
OnCompleteStaysMoving(p, gridX, gridY) ==
  [p EXCEPT !.gridX = gridX, !.gridY = gridY]

\* moveTo: the tween's onComplete callback
OnComplete(p, gridX, gridY) ==
  [p EXCEPT !.gridX = gridX, !.gridY = gridY, !.isMoving = FALSE]

\* getPositionInFront that steps against the facing direction
getPositionInFrontReversed(p) ==
  CASE p.direction = 0 -> [x |-> p.gridX, y |-> p.gridY - 1]
    [] p.direction = 1 -> [x |-> p.gridX - 1, y |-> p.gridY]
    [] p.direction = 2 -> [x |-> p.gridX + 1, y |-> p.gridY]
    [] p.direction = 3 -> [x |-> p.gridX, y |-> p.gridY + 1]
    [] OTHER -> [x |-> p.gridX, y |-> p.gridY]

\* getPositionInFront(): the cell one step ahead in the facing direction
getPositionInFront(p) ==
  CASE p.direction = 0 -> [x |-> p.gridX, y |-> p.gridY + 1]
    [] p.direction = 1 -> [x |-> p.gridX + 1, y |-> p.gridY]
    [] p.direction = 2 -> [x |-> p.gridX - 1, y |-> p.gridY]
    [] p.direction = 3 -> [x |-> p.gridX, y |-> p.gridY - 1]
    [] OTHER -> [x |-> p.gridX, y |-> p.gridY]

\* getState returning the player object itself
getStateLive(p, pid) ==
  [isNull |-> FALSE, ref |-> pid,
   val |-> [direction |-> p.direction, gridX |-> p.gridX, gridY |-> p.gridY,
            isMoving |-> p.isMoving]]

\* getState(): a new object holding the four values.  An object a caller
\* holds is either such a new object (ref = 0, the values in val) or the
\* player object pid itself (ref = pid).
getState(p, pid) ==
  [isNull |-> FALSE, ref |-> 0,
   val |-> [direction |-> p.direction, gridX |-> p.gridX, gridY |-> p.gridY,
            isMoving |-> p.isMoving]]

\* ----------------------------------------------------------------- items
\* The item methods (spawnItem of the tilemap; pickupItem, dropItem and
\* isCarryingItem of the player) are called by the scene and the GameAPI
\* but are not defined in iso_handler.js; they follow the documented
\* contract: pickup requires no carried item and an eligible item at or
\* adjacent to the entity's position; drop requires a carried item and
\* places it at the cell in front of the entity; both are instantaneous.

\* spawnItem(spriteKey, gridX, gridY, config): one more item on the map
spawnItem(its, gridX, gridY) ==
  Append(its, [x |-> gridX, y |-> gridY, held |-> FALSE])

\* an item on the ground at the entity's cell or on one of the cells around it
Eligible(p, it) ==
  /\ ~it.held
  /\ it.x - p.gridX \in {0 - 1, 0, 1}
  /\ it.y - p.gridY \in {0 - 1, 0, 1}

isCarryingItem(p) == p.carriedItem # 0

pickupItem(p, its) ==
  IF ~isCarryingItem(p) /\ \E i \in 1..Len(its) : Eligible(p, its[i])
  THEN LET i == CHOOSE i \in 1..Len(its) :
                  Eligible(p, its[i]) /\ \A j \in 1..(i - 1) : ~Eligible(p, its[j])
       IN [ok |-> TRUE,
           p |-> [p EXCEPT !.carriedItem = i],
           items |-> [its EXCEPT ![i].held = TRUE]]
  ELSE [ok |-> FALSE, p |-> p, items |-> its]

dropItem(p, its) ==
  IF isCarryingItem(p)
  THEN LET pos == getPositionInFront(p)
       IN [ok |-> TRUE,
           p |-> [p EXCEPT !.carriedItem = 0],
           items |-> [its EXCEPT ![p.carriedItem] =
                        [x |-> pos.x, y |-> pos.y, held |-> FALSE]]]
  ELSE [ok |-> FALSE, p |-> p, items |-> its]

\* ------------------------------------------------------ scene game rules
isGoalConveyor(cfg, x, y) == <<x, y>> \in LevelGoals(cfg)

isConveyor(cfg, x, y) == hasTileAt(x, y, LevelConveyorLayer(cfg))

\* checkDropCondition with the lose test on the goal list instead of the
\* conveyor layer
checkDropConditionNoConveyor(cfg, x, y) ==
  IF ~LevelHasGoals(cfg) THEN "error"
  ELSE IF isGoalConveyor(cfg, x, y) THEN "win"
  ELSE "lose"

\* checkDropCondition(x, y): 'win', 'lose' or 'continue'; for a level
\* without goalConveyors the call of .some on undefined raises
checkDropCondition(cfg, x, y) ==
  IF ~LevelHasGoals(cfg) THEN "error"
  ELSE IF isGoalConveyor(cfg, x, y) THEN "win"
  ELSE IF ~isConveyor(cfg, x, y) THEN "lose"
  ELSE "continue"

\* ------------------------------------------- IsometricTilemap as an object
\* size of the maps the tilemap object itself is exercised with
GridWidth == 2
GridHeight == 2

\* tile ids a cell of a layer can hold (0: empty)
TileIds == {0, 5}

\* (tilewidth, tileheight) of the maps
TileSizes == {<<64, 32>>, <<3, 5>>}

TileLayerNames == {"Floor", "Props"}
ObjectLayerNames == {"Objects"}

\* layers of a Tiled map: tile layers carry row-major data, others do not
LayerInputs ==
  [name : TileLayerNames, type : {"tilelayer"},
   data : [1..(GridWidth * GridHeight) -> TileIds]]
  \cup [name : ObjectLayerNames, type : {"objectgroup"}, data : {<<>>}]

\* layer lists: missing, empty, one layer, two layers with different names
LayerListInputs ==
  {[present |-> FALSE, list |-> <<>>], [present |-> TRUE, list |-> <<>>]}
  \cup {[present |-> TRUE, list |-> <<a>>] : a \in LayerInputs}
  \cup {[present |-> TRUE, list |-> <<c[1], c[2]>>] :
          c \in {d \in LayerInputs \X LayerInputs : d[1].name # d[2].name}}

MapInputs ==
  {[tilewidth |-> t[1], tileheight |-> t[2], width |-> GridWidth,
    height |-> GridHeight, layers |-> l] : t \in TileSizes, l \in LayerListInputs}

\* constructor(scene, mapData, tilesetTexture)
NewTilemap(mapData) ==
  [mapData |-> mapData,
   tileWidth |-> mapData.tilewidth, tileHeight |-> mapData.tileheight,
   mapWidth |-> mapData.width, mapHeight |-> mapData.height,
   allSprites |-> <<>>,
   layers |-> <<>>,        \* this.layers: its keys in insertion order
   layerSprites |-> <<>>,  \* this.layerSprites: [name, sprites] in key order
   built |-> FALSE,        \* build() has returned
   raised |-> FALSE]       \* build() was left by an exception

\* gridToScreen(gridX, gridY, z).  Screen coordinates are kept in half
\* pixels (twice the value), so that tileWidth / 2 is exact for odd sizes.
gridToScreen(tm, gridX, gridY, z) ==
  [x |-> (gridX - gridY) * tm.tileWidth,
   y |-> (gridX + gridY) * tm.tileHeight - 2 * z]

\* a screenToGrid that divides by the tile size instead of half of it
screenToGridFullTile(tm, screenX, screenY) ==
  [x |-> (screenX * tm.tileHeight + screenY * tm.tileWidth)
           \div (4 * tm.tileWidth * tm.tileHeight),
   y |-> (screenY * tm.tileWidth - screenX * tm.tileHeight)
           \div (4 * tm.tileWidth * tm.tileHeight)]

\* screenToGrid(screenX, screenY) on half-pixel coordinates:
\* floor((screenX / (tileWidth / 2) + screenY / (tileHeight / 2)) / 2) and
\* floor((screenY / (tileHeight / 2) - screenX / (tileWidth / 2)) / 2)
screenToGrid(tm, screenX, screenY) ==
  [x |-> (screenX * tm.tileHeight + screenY * tm.tileWidth)
           \div (2 * tm.tileWidth * tm.tileHeight),
   y |-> (screenY * tm.tileWidth - screenX * tm.tileHeight)
           \div (2 * tm.tileWidth * tm.tileHeight)]

\* a build() that creates a sprite for every cell, empty ones included
LayerCellsEveryCell(tm, layer, layerIndex) ==
  [k \in 1..(tm.mapWidth * tm.mapHeight) |->
     [gridX |-> (k - 1) % tm.mapWidth, gridY |-> (k - 1) \div tm.mapWidth,
      gridZ |-> layerIndex, layerName |-> layer.name,
      tileId |-> layer.data[k], depth |-> 0]]

\* the sprites build() creates for one tile layer, in row-major order
LayerCells(tm, layer, layerIndex) ==
  LET cells == [i \in 1..(tm.mapWidth * tm.mapHeight) |-> i - 1]
      used == SelectSeq(cells, LAMBDA index : layer.data[index + 1] > 0)
  IN [k \in 1..Len(used) |->
        [gridX |-> used[k] % tm.mapWidth, gridY |-> used[k] \div tm.mapWidth,
         gridZ |-> layerIndex, layerName |-> layer.name,
         tileId |-> layer.data[used[k] + 1], depth |-> 0]]

\* obj[key] = value on an object kept as a sequence of [name, ...] records
\* in key order: an existing key keeps its place
SetKey(obj, entry) ==
  IF \E k \in 1..Len(obj) : obj[k].name = entry.name
  THEN [k \in 1..Len(obj) |-> IF obj[k].name = entry.name THEN entry ELSE obj[k]]
  ELSE Append(obj, entry)

\* the forEach of build(): layers from position i on (layerIndex = i - 1)
RECURSIVE BuildLayers(_, _)
BuildLayers(tm, i) ==
  IF i > Len(tm.mapData.layers.list) THEN tm
  ELSE LET layer == tm.mapData.layers.list[i]
       IN IF layer.type # "tilelayer" THEN BuildLayers(tm, i + 1)
          ELSE LET made == LayerCells(tm, layer, i - 1)
               IN BuildLayers(
                    [tm EXCEPT !.layers = SetKey(@, [name |-> layer.name]),
                               !.layerSprites =
                                  SetKey(@, [name |-> layer.name, sprites |-> made]),
                               !.allSprites = @ \o made],
                    i + 1)

\* a comparator that orders a layer's rows back to front
DepthCompareReversed(a, b) ==
  IF a.gridZ # b.gridZ THEN a.gridZ - b.gridZ
  ELSE IF a.gridY # b.gridY THEN b.gridY - a.gridY
  ELSE IF a.gridX # b.gridX THEN a.gridX - b.gridX
  ELSE 0

\* the comparator of updateDepth()
DepthCompare(a, b) ==
  IF a.gridZ # b.gridZ THEN a.gridZ - b.gridZ
  ELSE IF a.gridY # b.gridY THEN a.gridY - b.gridY
  ELSE IF a.gridX # b.gridX THEN a.gridX - b.gridX
  ELSE 0

\* Array.prototype.sort with that comparator (a stable sort): insert each
\* element behind the elements that do not compare greater than it
Insert(sorted, s) ==
  LET before == SelectSeq(sorted, LAMBDA t : DepthCompare(t, s) <= 0)
      behind == SelectSeq(sorted, LAMBDA t : DepthCompare(t, s) > 0)
  IN before \o <<s>> \o behind

RECURSIVE SortSprites(_)
SortSprites(seq) ==
  IF seq = <<>> THEN <<>>
  ELSE Insert(SortSprites(SubSeq(seq, 1, Len(seq) - 1)), seq[Len(seq)])

\* updateDepth(): sort allSprites, then setDepth(index) on each; the sprites
\* in layerSprites are the same objects and show the same depth
updateDepth(tm) ==
  LET sorted == SortSprites(tm.allSprites)
      ranked == [k \in 1..Len(sorted) |-> [sorted[k] EXCEPT !.depth = k - 1]]
      DepthOf(s) ==
        ranked[CHOOSE k \in 1..Len(ranked) :
                 /\ ranked[k].gridX = s.gridX /\ ranked[k].gridY = s.gridY
                 /\ ranked[k].gridZ = s.gridZ].depth
      Ranked(list) ==
        [j \in 1..Len(list) |-> [list[j] EXCEPT !.depth = DepthOf(list[j])]]
  IN [tm EXCEPT
        !.allSprites = ranked,
        !.layerSprites =
           [k \in 1..Len(tm.layerSprites) |->
              [name |-> tm.layerSprites[k].name,
               sprites |-> Ranked(tm.layerSprites[k].sprites)]]]

\* build() without its check of the layer list: spreading a missing list
\* raises a TypeError
buildUnguarded(tm) ==
  IF ~tm.mapData.layers.present
  THEN [tm EXCEPT !.raised = TRUE]
  ELSE [updateDepth(BuildLayers(tm, 1)) EXCEPT !.built = TRUE]

\* build()
build(tm) ==
  IF ~tm.mapData.layers.present \/ Len(tm.mapData.layers.list) = 0
  THEN [tm EXCEPT !.built = TRUE]
  ELSE [updateDepth(BuildLayers(tm, 1)) EXCEPT !.built = TRUE]

\* the null result of getTileAt; raised marks a call left by an exception
NullTile ==
  [found |-> FALSE, tileId |-> 0, gridX |-> 0, gridY |-> 0, layerName |-> "",
   raised |-> FALSE]

\* getTileAt without its check of the layer name: find is called on undefined
getTileAtUnchecked(tm, gridX, gridY, layerName) ==
  IF ~\E k \in 1..Len(tm.layerSprites) : tm.layerSprites[k].name = layerName
  THEN [NullTile EXCEPT !.raised = TRUE]
  ELSE LET list == tm.layerSprites[CHOOSE k \in 1..Len(tm.layerSprites) :
                                     tm.layerSprites[k].name = layerName].sprites
           hits == SelectSeq(list, LAMBDA t : t.gridX = gridX /\ t.gridY = gridY)
       IN IF hits = <<>> THEN NullTile
          ELSE [found |-> TRUE, tileId |-> hits[1].tileId, gridX |-> gridX,
                gridY |-> gridY, layerName |-> layerName, raised |-> FALSE]

\* getTileAt(gridX, gridY, layerName): null for a layer that has no sprite
\* list and for a cell without a sprite
getTileAt(tm, gridX, gridY, layerName) ==
  IF ~\E k \in 1..Len(tm.layerSprites) : tm.layerSprites[k].name = layerName
  THEN NullTile
  ELSE LET list == tm.layerSprites[CHOOSE k \in 1..Len(tm.layerSprites) :
                                     tm.layerSprites[k].name = layerName].sprites
           hits == SelectSeq(list, LAMBDA t : t.gridX = gridX /\ t.gridY = gridY)
       IN IF hits = <<>> THEN NullTile
          ELSE [found |-> TRUE, tileId |-> hits[1].tileId, gridX |-> gridX,
                gridY |-> gridY, layerName |-> layerName, raised |-> FALSE]

\* getAllTilesAt(gridX, gridY): the tiles of all keys of layerSprites
getAllTilesAt(tm, gridX, gridY) ==
  LET all == [k \in 1..Len(tm.layerSprites) |->
                getTileAt(tm, gridX, gridY, tm.layerSprites[k].name)]
  IN SelectSeq(all, LAMBDA t : t.found)

\* the early returns of moveTo for a player that stands on tilemap tm
MoveToRefusedOn(tm, p, gridX, gridY) ==
  \/ p.isMoving
  \/ gridX < 0 \/ gridX >= tm.mapWidth \/ gridY < 0 \/ gridY >= tm.mapHeight
  \/ getTileAt(tm, gridX, gridY, "Props").raised
  \/ getTileAt(tm, gridX, gridY, "Props").found

\* ------------------------------------------------------------------ state
VARIABLES
  scenePhase,     \* "none": getScene() is null; "loading": scene exists,
                  \* create() not yet run; "created": create() has run
  ready,          \* the _ready promise is resolved
  cacheHasMap,    \* cache.tilemap.exists('warehouse')
  restartPending, \* scene.restart() was requested and not yet carried out
  currentLevel,   \* LevelManager.currentLevel
  levelConfig,    \* level whose configuration scene.levelConfig holds (0: none)
  isoMap,         \* scene.isoMap is non-null
  isoPlayer,      \* scene.isoPlayer: index into players, 0 for null
  players,        \* every IsometricPlayer object constructed so far
  queue,          \* _queue: ids of the entries waiting to be shifted
  running,        \* _running
  drainScene,     \* the scene captured by the running _drain was non-null
  sceneIsMoving,  \* scene.isMoving
  entries,        \* every queue entry created so far, by id (issue order)
  pending,        \* tweens and delayed calls of the scene not yet completed
  startOrder,     \* ids of entries in the order their fn() was called
  settleOrder,    \* ids of entries in the order resolve / reject was called
  lastMoveTo,     \* the most recent call of IsometricPlayer.moveTo
  calls,          \* number of calls issued so far by all callers
  items,          \* the items on scene.isoMap, in spawn order
  dropChecks,     \* the calls of scene.checkDropCondition made so far
  snapshots,      \* the objects GameAPI.getState() returned to callers
  hasStart,       \* the workspace holds the custom_start block
  chain,          \* the blocks connected below the start block, in order
  lastGen,        \* the most recent run of the generate handler
  stored,         \* the localStorage item 'level_progress'
  lmPhase,        \* "none": no LevelManager yet; "made"; "raised": its
                  \* constructor raised
  lmLast,         \* the most recent call on the LevelManager, with its result
  passed,         \* levels marked completed: those of the record at the
                  \* start and those passed to completeLevel since
  tilemap,        \* an IsometricTilemap object exercised on its own
  lastQuery,      \* the most recent query made on tilemap, with its result
  demo,           \* tile-grid demo: dir, playerTile, starTile, isTowing, isMoving
  demoQueue,      \* tile-grid demo: _queue, the calls waiting to be shifted
  demoRun,        \* tile-grid demo: the entry whose fn() is in progress
  demoLog,        \* tile-grid demo: the most recent entry settled
  demoCalls,      \* tile-grid demo: number of calls issued so far
  runs            \* the invocations of executeBlocklyCode made so far

vars ==
  <<scenePhase, ready, cacheHasMap, restartPending, currentLevel, levelConfig,
    isoMap, isoPlayer, players, queue, running, drainScene, sceneIsMoving,
    entries, pending, startOrder, settleOrder, lastMoveTo, calls,
    items, dropChecks, snapshots, hasStart, chain, lastGen, stored, lmPhase,
    lmLast, passed, tilemap, lastQuery, demo, demoQueue, demoRun, demoLog,
    demoCalls, runs>>

demoVars == <<demo, demoQueue, demoRun, demoLog, demoCalls>>
cmdVars == <<hasStart, chain, lastGen>>
mapVars == <<tilemap, lastQuery>>
itemVars == <<items, dropChecks>>
lmVars == <<stored, lmPhase, lmLast, passed>>

\* the state of the components that are exercised on their own
aloneVars == <<mapVars, lmVars, snapshots, cmdVars, demoVars, runs>>

sceneVars == <<scenePhase, ready, cacheHasMap, restartPending, levelConfig, isoMap>>
queueVars == <<queue, running, drainScene, sceneIsMoving, entries, startOrder, settleOrder>>

NoMove ==
  [n |-> 0, owner |-> 0, pid |-> 0, x |-> 0, y |-> 0, ok |-> FALSE,
   before |-> NewPlayer(0, 0, 0), after |-> NewPlayer(0, 0, 0), started |-> FALSE]

\* In the specifications of the scene the tilemap object exercised on its
\* own is a fresh one over a map of the scene's size without a layer list,
\* and nothing touches it.
WarehouseMap ==
  [tilewidth |-> 64, tileheight |-> 32, width |-> MapWidth, height |-> MapHeight,
   layers |-> [present |-> FALSE, list |-> <<>>]]

NoQuery ==
  [kind |-> "none", gridX |-> 0, gridY |-> 0, layerName |-> "",
   tile |-> NullTile, tiles |-> <<>>, screen |-> [x |-> 0, y |-> 0],
   grid |-> [x |-> 0, y |-> 0], refused |-> FALSE]

NoCall ==
  [op |-> "none", arg |-> 0, ret |-> FALSE, raised |-> FALSE, level |-> 0,
   progress |-> NullProgress]

\* a level manager constructed over the record of an earlier session
InitManager ==
  /\ currentLevel \in LevelInputs
  /\ stored = IF currentLevel = 1 THEN NoItem
              ELSE Stringify(Progress(currentLevel, <<>>))
  /\ lmPhase = "made"
  /\ lmLast = NoCall
  /\ passed = {}

NoGen == [ran |-> FALSE, commands |-> <<>>, before |-> <<>>, alerted |-> FALSE]

InitScene ==
  /\ scenePhase = "none"
  /\ ready = FALSE
  /\ cacheHasMap = FALSE
  /\ restartPending = FALSE
  /\ levelConfig = 0
  /\ isoMap = FALSE
  /\ isoPlayer = 0
  /\ players = <<>>
  /\ queue = <<>>
  /\ running = FALSE
  /\ drainScene = FALSE
  /\ sceneIsMoving = FALSE
  /\ entries = <<>>
  /\ pending = <<>>
  /\ startOrder = <<>>
  /\ settleOrder = <<>>
  /\ lastMoveTo = NoMove
  /\ calls = 0
  /\ items = <<>>
  /\ dropChecks = <<>>
  /\ snapshots = <<>>
  /\ hasStart = TRUE
  /\ chain = <<>>
  /\ lastGen = NoGen
  /\ runs = <<>>

\* the tile-grid demo as its script leaves it
DemoIdle ==
  [active |-> FALSE, op |-> "", wait |-> "", val |-> FALSE, undef |-> FALSE,
   sign |-> 0, steps |-> 0, i |-> 0, tx |-> 0, ty |-> 0, towed |-> FALSE,
   start |-> DemoStart]

NoDemoLog ==
  [op |-> "", val |-> FALSE, undef |-> FALSE, start |-> DemoStart, end |-> DemoStart]

InitDemoQueue ==
  /\ demoQueue = <<>>
  /\ demoRun = DemoIdle
  /\ demoLog = NoDemoLog
  /\ demoCalls = 0

InitDemo == demo = DemoStart /\ InitDemoQueue

Init ==
  /\ InitScene
  /\ InitManager
  /\ InitDemo
  /\ tilemap = NewTilemap(WarehouseMap)
  /\ lastQuery = NoQuery

\* ----------------------------------------------------------- scene lifecycle
\* an await is about to resume: no timer, tween or scene event runs before it
Busy == \E id \in 1..Len(entries) :
          entries[id].st = "running" /\ entries[id].wait = "ready"

\* initLevel(): returns early without the tilemap; otherwise builds the map
\* and constructs the player from levelConfig.playerStart, which raises a
\* TypeError (start is undefined) for a level without playerStart.
RECURSIVE SpawnItems(_, _, _)
SpawnItems(its, spawns, k) ==
  IF k > Len(spawns) THEN its
  ELSE SpawnItems(spawnItem(its, spawns[k][1], spawns[k][2]), spawns, k + 1)

InitLevel(cfg, cache, map, pl, pls) ==
  IF ~cache
  THEN [isoMap |-> map, isoPlayer |-> pl, players |-> pls, threw |-> FALSE,
        items |-> IF map THEN items ELSE <<>>]
  ELSE IF ~LevelHasStart(cfg)
  THEN [isoMap |-> TRUE, isoPlayer |-> pl, players |-> pls, threw |-> TRUE,
        items |-> <<>>]
  ELSE [isoMap |-> TRUE,
        isoPlayer |-> Len(pls) + 1,
        players |-> Append(pls, NewPlayer(LevelStart(cfg).x, LevelStart(cfg).y,
                                         LevelStart(cfg).direction)),
        threw |-> FALSE,
        items |-> SpawnItems(<<>>, LevelItemSpawns(cfg), 1)]

\* the game boots the scene and preload() runs: the level configuration is
\* read from the level manager and the loader fetches the tilemap, which
\* can fail (loaderror)
Preload ==
  /\ ~Busy
  /\ scenePhase = "none"
  /\ scenePhase' = "loading"
  /\ levelConfig' = currentLevel
  /\ \E loaded \in BOOLEAN : cacheHasMap' = loaded
  /\ UNCHANGED <<aloneVars, itemVars, ready, restartPending, currentLevel, isoMap,
                 isoPlayer, players,
                 queue, running, drainScene, sceneIsMoving, entries, pending,
                 startOrder, settleOrder, lastMoveTo, calls>>

\* create(): initLevel(), then the ready promise is resolved (a second
\* _readyResolve() on a resolved promise has no effect); when initLevel()
\* raises, create() is left before _readyResolve()
Create ==
  /\ ~Busy
  /\ scenePhase = "loading"
  /\ LET r == InitLevel(levelConfig, cacheHasMap, isoMap, isoPlayer, players)
     IN /\ isoMap' = r.isoMap
        /\ isoPlayer' = r.isoPlayer
        /\ players' = r.players
        /\ ready' = IF r.threw THEN ready ELSE TRUE
        /\ items' = r.items
  /\ scenePhase' = "created"
  /\ UNCHANGED <<aloneVars, dropChecks, cacheHasMap, restartPending, currentLevel, levelConfig,
                 queue, running, drainScene, sceneIsMoving, entries, pending,
                 startOrder, settleOrder, lastMoveTo, calls>>

\* the scene manager carries out a requested restart: shutdown removes the
\* scene's tweens and timers, then preload() runs again
SceneRestart ==
  /\ ~Busy
  /\ restartPending
  /\ restartPending' = FALSE
  /\ pending' = <<>>
  /\ scenePhase' = "loading"
  /\ levelConfig' = currentLevel
  /\ \E loaded \in BOOLEAN : cacheHasMap' = loaded
  /\ UNCHANGED <<aloneVars, itemVars, ready, currentLevel, isoMap, isoPlayer, players,
                 queue, running, drainScene, sceneIsMoving, entries,
                 startOrder, settleOrder, lastMoveTo, calls>>

\* LevelManager.goToLevel(levelNumber)
goToLevel(levelNumber) ==
  /\ lmPhase = "made"
  /\ LET r == goToLevelOn(currentLevel, stored, levelNumber)
     IN /\ currentLevel' = r.currentLevel
        /\ stored' = r.item
        /\ lmLast' = [NoCall EXCEPT !.op = "goToLevel", !.arg = levelNumber,
                                    !.ret = r.ret, !.raised = r.raised]
  /\ UNCHANGED <<mapVars, snapshots, cmdVars, demoVars, runs, lmPhase, passed, itemVars, sceneVars, isoPlayer, players,
                 queueVars, pending, lastMoveTo, calls>>

\* ------------------------------------------------------------ action queue
\* _drain without its re-entrancy guard
DrainGuardMissing(isRunning) == FALSE

\* if (_running) return;
DrainGuard(isRunning) == isRunning

\* _queue[0] in place of _queue.shift(): the entry stays in the backlog
QueuePeek(q) == [head |-> Head(q), rest |-> q]

\* _queue.pop() in place of _queue.shift()
QueuePop(q) == [head |-> q[Len(q)], rest |-> SubSeq(q, 1, Len(q) - 1)]

\* _queue.shift()
QueueShift(q) == [head |-> Head(q), rest |-> Tail(q)]

\* a catch block that resolves the signal with false instead of rejecting it
SettleSwallow(val) == IF val = "true" THEN "true" ELSE "false"

\* try { resolve(await fn()) } catch (e) { reject(e) }: how the entry's
\* completion signal is settled from the outcome of fn()
SettleOutcome(val) ==
  CASE val = "true" -> "true"
    [] val = "false" -> "false"
    [] OTHER -> "rejected"

NewEntry(op, a, b, name, behind) ==
  [op |-> op, a |-> a, b |-> b, name |-> name,
   behind |-> behind, \* entries not yet settled when this one was created
   st |-> "queued",   \* "queued", "running" (shifted, fn() called), "settled"
   phase |-> "ret",   \* "step": _multiStep awaits a moveTo; "ret": _drain awaits fn()
   wait |-> "ready",  \* the awaited promise is "pending" or "ready" (settled)
   val |-> "false",   \* what the awaited promise settled with: "true", "false", "error"
   i |-> 0,           \* _multiStep's loop counter
   out |-> "none",    \* the completion signal: "none", "true", "false", "rejected"
   p0 |-> [pid |-> 0, x |-> 0, y |-> 0, d |-> 0]]  \* the entity when fn() was called

\* The entity side of the state, as synchronous code passes it along:
\* S = [players, pending, lastMoveTo]
Here == [players |-> players, pending |-> pending, lastMoveTo |-> lastMoveTo]

Transition(S, kind, owner, pid, x, y, val) ==
  [kind |-> kind, owner |-> owner, pid |-> pid, x |-> x, y |-> y, val |-> val,
   fromX |-> S.players[pid].gridX, fromY |-> S.players[pid].gridY]

\* IsometricPlayer.moveTo(gridX, gridY) called on player pid for owner
\* (a queue entry id, 0 for a direct caller)
MoveToCall(S, pid, gridX, gridY, owner) ==
  LET p == S.players[pid]
      refused == MoveToRefused(p, gridX, gridY)
      after == IF refused THEN p ELSE MoveToAccept(p, gridX, gridY)
      log == [n |-> S.lastMoveTo.n + 1, owner |-> owner, pid |-> pid,
              x |-> gridX, y |-> gridY, ok |-> ~refused,
              before |-> p, after |-> after, started |-> ~refused]
  IN [ok |-> ~refused,
      S |-> [players |-> [S.players EXCEPT ![pid] = after],
             pending |-> IF refused THEN S.pending
                         ELSE Append(S.pending,
                                Transition(S, "tween", owner, pid, gridX, gridY, "true")),
             lastMoveTo |-> log]]

\* IsometricPlayer.rotate(delta) up to the promise it returns
RotateCall(S, pid, delta, owner) ==
  [players |-> [S.players EXCEPT ![pid].direction =
                   RotateDir(S.players[pid].direction, delta)],
   pending |-> Append(S.pending, Transition(S, "timer", owner, pid, 0, 0, "true")),
   lastMoveTo |-> S.lastMoveTo]

\* _face(dirName): IsometricPlayer.face, then delayedCall(100, resolve(result))
FaceCall(S, pid, dirName, owner) ==
  LET known == faceDir(S.players[pid].direction, dirName).ret
  IN [players |-> [S.players EXCEPT ![pid].direction =
                     faceDir(S.players[pid].direction, dirName).direction],
      pending |-> Append(S.pending,
                    Transition(S, "timer", owner, pid, 0, 0,
                               IF known THEN "true" ELSE "false")),
      lastMoveTo |-> S.lastMoveTo]

\* one iteration of _multiStep's loop body up to its await
StepAttempt(S, id, ent) ==
  IF isoPlayer = 0
  THEN \* _getForwardPosition reads player.gridX of null: TypeError
       [ent |-> [ent EXCEPT !.phase = "ret", !.wait = "ready", !.val = "error"],
        S |-> S]
  ELSE LET newPos == IF ent.op = "moveForward"
                     THEN ForwardPosition(S.players[isoPlayer])
                     ELSE BackwardPosition(S.players[isoPlayer])
           r == MoveToCall(S, isoPlayer, newPos.x, newPos.y, id)
       IN [ent |-> IF r.ok
                   THEN [ent EXCEPT !.phase = "step", !.wait = "pending"]
                   ELSE [ent EXCEPT !.phase = "step", !.wait = "ready", !.val = "false"],
           S |-> r.S]

\* the body of GameAPI.pickupItem's / dropItem's fn once the scene and its
\* player are known to exist; dropItem reads getPositionInFront() first
\* and calls checkDropCondition(pos.x, pos.y) when the drop succeeded
ItemFn(S, id, e) ==
  LET p == S.players[isoPlayer]
  IN IF e.op = "pickupItem"
     THEN LET r == pickupItem(p, items)
          IN [val |-> IF r.ok THEN "true" ELSE "false",
              players |-> [S.players EXCEPT ![isoPlayer] = r.p],
              items |-> r.items,
              checks |-> dropChecks]
     ELSE LET pos == getPositionInFront(p)
              r == dropItem(p, items)
              result == checkDropCondition(levelConfig, pos.x, pos.y)
          IN [val |-> IF ~r.ok THEN "false"
                      ELSE IF result = "error" THEN "error" ELSE "true",
              players |-> [S.players EXCEPT ![isoPlayer] = r.p],
              items |-> r.items,
              checks |-> IF r.ok
                         THEN Append(dropChecks,
                                [owner |-> id, pid |-> isoPlayer, x |-> pos.x,
                                 y |-> pos.y, facing |-> p.direction,
                                 fromX |-> p.gridX, fromY |-> p.gridY,
                                 level |-> levelConfig, result |-> result])
                         ELSE dropChecks]

ItemOps == {"pickupItem", "dropItem"}

\* what fn() of entry e leaves of the items and of the drop checks
ItemEffect(S, id, e) ==
  IF e.op \in ItemOps /\ scenePhase # "none" /\ isoPlayer # 0
  THEN [items |-> ItemFn(S, id, e).items, checks |-> ItemFn(S, id, e).checks]
  ELSE [items |-> items, checks |-> dropChecks]

\* fn() of a queue entry, run synchronously by _drain up to its first await
StartFn(S, id, e) ==
  LET ent == [e EXCEPT !.st = "running",
                       !.p0 = IF isoPlayer = 0 THEN e.p0
                              ELSE [pid |-> isoPlayer,
                                    x |-> S.players[isoPlayer].gridX,
                                    y |-> S.players[isoPlayer].gridY,
                                    d |-> S.players[isoPlayer].direction]]
  IN IF scenePhase = "none" \/ isoPlayer = 0
     THEN \* if (!scene || !scene.isoPlayer) return false
          [ent |-> [ent EXCEPT !.phase = "ret", !.wait = "ready", !.val = "false"],
           S |-> S]
     ELSE CASE ent.op = "rotateLeft" ->
                 [ent |-> [ent EXCEPT !.phase = "ret", !.wait = "pending"],
                  S |-> RotateCall(S, isoPlayer, 0 - 1, id)]
            [] ent.op = "rotateRight" ->
                 [ent |-> [ent EXCEPT !.phase = "ret", !.wait = "pending"],
                  S |-> RotateCall(S, isoPlayer, 1, id)]
            [] ent.op = "face" ->
                 [ent |-> [ent EXCEPT !.phase = "ret", !.wait = "pending"],
                  S |-> FaceCall(S, isoPlayer, ent.name, id)]
            [] ent.op \in {"moveForward", "moveBackward"} ->
                 IF 0 < ent.a
                 THEN StepAttempt(S, id, ent)
                 ELSE [ent |-> [ent EXCEPT !.phase = "ret", !.wait = "ready",
                                           !.val = "true"],
                       S |-> S]
            [] ent.op \in ItemOps ->
                 [ent |-> [ent EXCEPT !.phase = "ret", !.wait = "ready",
                                      !.val = ItemFn(S, id, ent).val],
                  S |-> [S EXCEPT !.players = ItemFn(S, id, ent).players]]
            [] ent.op = "setPosition" ->
                 LET r == MoveToCall(S, isoPlayer, ent.a, ent.b, id)
                 IN [ent |-> IF r.ok
                             THEN [ent EXCEPT !.phase = "ret", !.wait = "pending"]
                             ELSE [ent EXCEPT !.phase = "ret", !.wait = "ready",
                                              !.val = "false"],
                     S |-> r.S]

\* the while loop of _drain from its condition to the next await (or its end)
DrainLoop(S, ents, q, moving) ==
  IF Len(q) > 0
  THEN LET sh == QueueShift(q)
           r == StartFn(S, sh.head, ents[sh.head])
       IN /\ queue' = sh.rest
          /\ entries' = [ents EXCEPT ![sh.head] = r.ent]
          /\ players' = r.S.players
          /\ pending' = r.S.pending
          /\ lastMoveTo' = r.S.lastMoveTo
          /\ startOrder' = Append(startOrder, sh.head)
          /\ running' = TRUE
          /\ sceneIsMoving' = moving
          /\ items' = ItemEffect(S, sh.head, ents[sh.head]).items
          /\ dropChecks' = ItemEffect(S, sh.head, ents[sh.head]).checks
  ELSE /\ queue' = q
       /\ entries' = ents
       /\ players' = S.players
       /\ pending' = S.pending
       /\ lastMoveTo' = S.lastMoveTo
       /\ startOrder' = startOrder
       /\ running' = FALSE
       /\ sceneIsMoving' = IF drainScene' THEN FALSE ELSE moving
       /\ UNCHANGED itemVars

\* _drain after `await fn()` has produced val for entry id: resolve or
\* reject the entry's completion signal, then go round the loop
SettleAndLoop(S, ents, id, val) ==
  /\ settleOrder' = Append(settleOrder, id)
  /\ drainScene' = drainScene
  /\ DrainLoop(S,
               [ents EXCEPT ![id].st = "settled", ![id].phase = "ret",
                            ![id].wait = "ready", ![id].val = val,
                            ![id].out = SettleOutcome(val)],
               queue, sceneIsMoving)

\* _enqueue(label, fn): push the entry, then _drain()
EnqueueCall(op, a, b, name) ==
  /\ calls < MaxCalls
  /\ calls' = calls + 1
  /\ LET unsettled == {d \in 1..Len(entries) : entries[d].st # "settled"}
         ents == Append(entries, NewEntry(op, a, b, name, Cardinality(unsettled)))
         q == Append(queue, Len(entries) + 1)
     IN IF DrainGuard(running)
        THEN /\ entries' = ents
             /\ queue' = q
             /\ UNCHANGED <<running, drainScene, sceneIsMoving, players, pending,
                            lastMoveTo, startOrder, itemVars>>
        ELSE /\ drainScene' = (scenePhase # "none")
             /\ DrainLoop(Here, ents, q,
                          IF scenePhase # "none" THEN TRUE ELSE sceneIsMoving)
  /\ UNCHANGED <<sceneVars, currentLevel, isoPlayer, settleOrder>>

\* a call of a queued GameAPI method by a caller other than a program run
Enqueue(op, a, b, name) == EnqueueCall(op, a, b, name) /\ UNCHANGED aloneVars

\* --------------------------------------------------------------- GameAPI
\* argument values the callers use
FaceInputs == {"east", "sideways"}
SetPositionInputs == {<<2, 6>>, <<1, 4>>}

rotateLeft == Enqueue("rotateLeft", 0, 0, "")
rotateRight == Enqueue("rotateRight", 0, 0, "")
moveForward == \E steps \in 1..MaxSteps : Enqueue("moveForward", steps, 0, "")
moveBackward == \E steps \in 1..MaxSteps : Enqueue("moveBackward", steps, 0, "")
face == \E dirName \in FaceInputs : Enqueue("face", 0, 0, dirName)
GameAPI_pickupItem == Enqueue("pickupItem", 0, 0, "")
GameAPI_dropItem == Enqueue("dropItem", 0, 0, "")
setPosition == \E t \in SetPositionInputs : Enqueue("setPosition", t[1], t[2], "")

\* GameAPI.resetLevel(): not enqueued; scene.resetLevel() runs in the call
resetLevelCall ==
  /\ IF scenePhase = "none"
     THEN UNCHANGED <<levelConfig, isoMap, isoPlayer, players, items>>
     ELSE LET r == InitLevel(currentLevel, cacheHasMap, FALSE, 0, players)
          IN /\ levelConfig' = currentLevel
             /\ isoMap' = r.isoMap
             /\ isoPlayer' = r.isoPlayer
             /\ players' = r.players
             /\ items' = r.items
  /\ UNCHANGED <<dropChecks, scenePhase, ready, cacheHasMap, restartPending, currentLevel,
                 queueVars, pending, lastMoveTo>>

\* GameAPI.resetLevel() called by a caller other than a program run
resetLevel ==
  /\ calls < MaxCalls
  /\ calls' = calls + 1
  /\ resetLevelCall
  /\ UNCHANGED aloneVars

\* GameAPI.loadNewLevel(): not enqueued; scene.loadNewLevel() runs in the call
loadNewLevel ==
  /\ calls < MaxCalls
  /\ calls' = calls + 1
  /\ IF scenePhase = "none"
     THEN UNCHANGED <<levelConfig, cacheHasMap, isoMap, isoPlayer, restartPending,
                      items>>
     ELSE /\ levelConfig' = currentLevel
          /\ cacheHasMap' = FALSE
          /\ isoPlayer' = 0
          /\ isoMap' = FALSE
          /\ items' = <<>>
          /\ restartPending' = TRUE
  /\ UNCHANGED <<aloneVars, dropChecks, scenePhase, ready, currentLevel, players,
                 queueVars, pending, lastMoveTo>>

\* ------------------------------------------------- completions and resumptions
RemoveAt(seq, k) == SubSeq(seq, 1, k - 1) \o SubSeq(seq, k + 1, Len(seq))

\* The code that runs, without any caller in between, once the promise that
\* entry `owner` awaits is resolved with val: _multiStep resumes and takes its
\* next step or returns, and when fn() has returned _drain resumes.
Resume(S, owner, val) ==
  IF owner = 0
  THEN /\ players' = S.players
       /\ pending' = S.pending
       /\ lastMoveTo' = S.lastMoveTo
       /\ UNCHANGED <<queueVars, itemVars>>
  ELSE LET ent == entries[owner]
       IN IF ent.phase = "step" /\ val = "true" /\ ent.i + 1 < ent.a
          THEN LET r == StepAttempt(S, owner, [ent EXCEPT !.i = ent.i + 1])
               IN IF r.ent.wait = "pending"
                  THEN /\ entries' = [entries EXCEPT ![owner] = r.ent]
                       /\ players' = r.S.players
                       /\ pending' = r.S.pending
                       /\ lastMoveTo' = r.S.lastMoveTo
                       /\ UNCHANGED <<queue, running, drainScene, sceneIsMoving,
                                      startOrder, settleOrder, itemVars>>
                  ELSE \* the step was refused (return false) or raised
                       SettleAndLoop(r.S, [entries EXCEPT ![owner] = r.ent],
                                     owner, r.ent.val)
          ELSE IF ent.phase = "step" /\ val = "true"
          THEN \* the loop is finished: return true
               SettleAndLoop(S, [entries EXCEPT ![owner].i = ent.i + 1], owner, "true")
          ELSE SettleAndLoop(S, entries, owner, val)

\* a move tween completes: onComplete updates the entity and resolves true.
\* Tweens and timers are advanced by the scene's update, which the scene
\* manager runs only after it has carried out a requested restart.
TweenComplete ==
  \E k \in 1..Len(pending) :
    /\ ~Busy
    /\ ~restartPending
    /\ pending[k].kind = "tween"
    /\ Resume([players |-> [players EXCEPT ![pending[k].pid] =
                              OnComplete(players[pending[k].pid],
                                         pending[k].x, pending[k].y)],
               pending |-> RemoveAt(pending, k),
               lastMoveTo |-> lastMoveTo],
              pending[k].owner, "true")
    /\ UNCHANGED <<aloneVars, sceneVars, currentLevel, isoPlayer, calls>>

\* a delayedCall(100, ...) of rotate or _face fires and resolves its promise
TimerFire ==
  \E k \in 1..Len(pending) :
    /\ ~Busy
    /\ ~restartPending
    /\ pending[k].kind = "timer"
    /\ Resume([players |-> players, pending |-> RemoveAt(pending, k),
               lastMoveTo |-> lastMoveTo],
              pending[k].owner, pending[k].val)
    /\ UNCHANGED <<aloneVars, sceneVars, currentLevel, isoPlayer, calls>>

\* _multiStep resumes after a moveTo that was refused in the call: return false
MultiStepResume ==
  \E id \in 1..Len(entries) :
    /\ entries[id].st = "running"
    /\ entries[id].phase = "step" /\ entries[id].wait = "ready"
    /\ entries' = [entries EXCEPT ![id].phase = "ret", ![id].val = "false"]
    /\ UNCHANGED <<aloneVars, itemVars, sceneVars, currentLevel, isoPlayer, players,
                   pending, lastMoveTo,
                   queue, running, drainScene, sceneIsMoving, startOrder,
                   settleOrder, calls>>

\* _drain resumes after `await fn()` of an operation that finished in the call
DrainResume ==
  \E id \in 1..Len(entries) :
    /\ entries[id].st = "running"
    /\ entries[id].phase = "ret" /\ entries[id].wait = "ready"
    /\ SettleAndLoop(Here, entries, id, entries[id].val)
    /\ UNCHANGED <<aloneVars, sceneVars, currentLevel, isoPlayer, calls>>

\* ------------------------------------- direct calls on the IsometricPlayer
\* moveTo / rotate called on the scene's player by code that does not go
\* through the queue
DirectMoveInputs == {<<2, 6>>, <<1, 5>>, <<1, 4>>, <<0 - 1, 6>>}

DirectMoveTo ==
  \E t \in DirectMoveInputs :
    /\ calls < MaxCalls
    /\ isoPlayer # 0
    /\ calls' = calls + 1
    /\ LET r == MoveToCall(Here, isoPlayer, t[1], t[2], 0)
       IN /\ players' = r.S.players
          /\ pending' = r.S.pending
          /\ lastMoveTo' = r.S.lastMoveTo
    /\ UNCHANGED <<aloneVars, itemVars, sceneVars, currentLevel, isoPlayer, queueVars>>

DirectRotate ==
  \E delta \in {0 - 1, 1} :
    /\ calls < MaxCalls
    /\ isoPlayer # 0
    /\ calls' = calls + 1
    /\ LET S == RotateCall(Here, isoPlayer, delta, 0)
       IN /\ players' = S.players
          /\ pending' = S.pending
    /\ UNCHANGED <<aloneVars, itemVars, sceneVars, currentLevel, isoPlayer, queueVars,
                   lastMoveTo>>

\* ------------------------------------------------------------ specification
LevelChange == \E levelNumber \in LevelInputs : goToLevel(levelNumber)

Next ==
  \/ Preload
  \/ Create
  \/ SceneRestart
  \/ LevelChange
  \/ rotateLeft
  \/ rotateRight
  \/ moveForward
  \/ moveBackward
  \/ face
  \/ setPosition
  \/ resetLevel
  \/ loadNewLevel
  \/ TweenComplete
  \/ TimerFire
  \/ MultiStepResume
  \/ DrainResume

Spec == Init /\ [][Next]_vars

\* the entity under direct callers of its methods and the queue's movement calls
NextEntity ==
  \/ Preload
  \/ Create
  \/ DirectMoveTo
  \/ DirectRotate
  \/ moveForward
  \/ setPosition
  \/ resetLevel
  \/ TweenComplete
  \/ TimerFire
  \/ MultiStepResume
  \/ DrainResume

SpecEntity == Init /\ [][NextEntity]_vars

\* the queue and the entity when no scene is shut down, with every started
\* tween and timer eventually completing and every resolved await eventually
\* resuming (the browser's event loop and the scene's update loop)
NextLive ==
  \/ Preload
  \/ Create
  \/ rotateLeft
  \/ moveForward
  \/ face
  \/ setPosition
  \/ resetLevel
  \/ TweenComplete
  \/ TimerFire
  \/ MultiStepResume
  \/ DrainResume

SpecLive ==
  /\ Init
  /\ [][NextLive]_vars
  /\ WF_vars(TweenComplete)
  /\ WF_vars(TimerFire)
  /\ WF_vars(MultiStepResume)
  /\ WF_vars(DrainResume)

\* ------------------------------------------------- items and the drop rule
\* cells the scene's checkDropCondition is called with by code other than
\* GameAPI.dropItem: goal cells, conveyor cells and plain floor cells
CheckDropCells == {<<7, 0>>, <<7, 7>>, <<0, 7>>, <<0, 5>>, <<2, 6>>}

\* scene.checkDropCondition(x, y) called on a scene whose level is built
\* and has its player
DirectCheckDrop ==
  \E c \in CheckDropCells :
    /\ calls < MaxCalls
    /\ scenePhase = "created" /\ isoMap /\ isoPlayer # 0
    /\ calls' = calls + 1
    /\ dropChecks' = Append(dropChecks,
                        [owner |-> 0, pid |-> 0, x |-> c[1], y |-> c[2],
                         facing |-> 0, fromX |-> 0, fromY |-> 0,
                         level |-> levelConfig,
                         result |-> checkDropCondition(levelConfig, c[1], c[2])])
    /\ UNCHANGED <<aloneVars, items, sceneVars, currentLevel, isoPlayer, players,
                   queueVars, pending, lastMoveTo>>

NextItems ==
  \/ Preload
  \/ Create
  \/ LevelChange
  \/ rotateLeft
  \/ moveForward
  \/ GameAPI_pickupItem
  \/ GameAPI_dropItem
  \/ resetLevel
  \/ DirectCheckDrop
  \/ TweenComplete
  \/ TimerFire
  \/ MultiStepResume
  \/ DrainResume

SpecItems == Init /\ [][NextItems]_vars

\* ------------------------------------------------------ state snapshots
\* number of getState() results the callers keep
MaxSnapshots == 1

\* what a caller reads from an object it holds
Deref(snap) ==
  IF snap.ref # 0
  THEN [direction |-> players[snap.ref].direction, gridX |-> players[snap.ref].gridX,
        gridY |-> players[snap.ref].gridY, isMoving |-> players[snap.ref].isMoving]
  ELSE snap.val

\* GameAPI.getState(): null without a scene or a player, else
\* scene.isoPlayer.getState(); not enqueued.  `at` keeps what the caller
\* read from the result when it got it.
GameAPI_getState ==
  /\ Len(snapshots) < MaxSnapshots
  /\ snapshots' =
       Append(snapshots,
              IF scenePhase = "none" \/ isoPlayer = 0
              THEN [obj |-> [isNull |-> TRUE, ref |-> 0,
                             val |-> [direction |-> 0, gridX |-> 0, gridY |-> 0,
                                      isMoving |-> FALSE]],
                    at |-> [direction |-> 0, gridX |-> 0, gridY |-> 0,
                            isMoving |-> FALSE],
                    pid |-> 0, edited |-> FALSE]
              ELSE [obj |-> getState(players[isoPlayer], isoPlayer),
                    at |-> getState(players[isoPlayer], isoPlayer).val,
                    pid |-> isoPlayer, edited |-> FALSE])
  /\ UNCHANGED <<mapVars, lmVars, cmdVars, demoVars, runs, itemVars, sceneVars, currentLevel,
                 isoPlayer, players, queueVars, pending, lastMoveTo, calls>>

\* a caller assigns to the properties of an object getState() returned
EditSnapshot ==
  \E k \in 1..Len(snapshots) :
    /\ ~snapshots[k].obj.isNull
    /\ ~snapshots[k].edited
    /\ IF snapshots[k].obj.ref # 0
       THEN /\ players' = [players EXCEPT ![snapshots[k].obj.ref].gridX = 0 - 1,
                                          ![snapshots[k].obj.ref].direction = 7]
            /\ snapshots' = [snapshots EXCEPT ![k].edited = TRUE]
       ELSE /\ snapshots' = [snapshots EXCEPT ![k].edited = TRUE,
                                              ![k].obj.val.gridX = 0 - 1,
                                              ![k].obj.val.direction = 7]
            /\ UNCHANGED players
    /\ UNCHANGED <<mapVars, lmVars, cmdVars, demoVars, runs, itemVars, sceneVars, currentLevel,
                   isoPlayer, queueVars, pending, lastMoveTo, calls>>

NextSnap ==
  \/ Preload
  \/ Create
  \/ rotateLeft
  \/ moveForward
  \/ GameAPI_getState
  \/ EditSnapshot
  \/ TweenComplete
  \/ TimerFire
  \/ MultiStepResume
  \/ DrainResume

SpecSnap == Init /\ [][NextSnap]_vars

\* ------------------------------------------------ the generate handler
\* everything but the block workspace
notCmdVars ==
  <<scenePhase, ready, cacheHasMap, restartPending, currentLevel, levelConfig,
    isoMap, isoPlayer, players, queue, running, drainScene, sceneIsMoving,
    entries, pending, startOrder, settleOrder, lastMoveTo, calls, items,
    dropChecks, snapshots, stored, lmPhase, lmLast, passed, tilemap, lastQuery,
    demoVars, runs>>

RECURSIVE SeqsUpTo(_, _)
SeqsUpTo(S, n) ==
  IF n = 0 THEN {<<>>}
  ELSE SeqsUpTo(S, n - 1) \cup
       {Append(q, x) : q \in {r \in SeqsUpTo(S, n - 1) : Len(r) = n - 1}, x \in S}

\* blocks a user may have put below the start block
ChainInputs == SeqsUpTo({Block("move_forward", 1), Block("pick_object", 0)}, MaxChain)

InitCmd ==
  /\ InitScene
  /\ InitManager
  /\ InitDemo
  /\ currentLevel = 1
  /\ items = <<>>
  /\ dropChecks = <<>>
  /\ snapshots = <<>>
  /\ tilemap = NewTilemap(WarehouseMap)
  /\ lastQuery = NoQuery
  /\ hasStart \in BOOLEAN
  /\ chain \in ChainInputs
  /\ hasStart = FALSE => chain = <<>>
  /\ lastGen = NoGen

\* the click handler of ai-generate-btn from the arrival of the response:
\* response.commands || [], the start block looked up (alert and return
\* when there is none), the walk to the last block of the chain, forEach
AiGenerate ==
  \E commands \in SeqsUpTo(CommandInputs, MaxCommands) :
    /\ ~lastGen.ran
    /\ IF ~hasStart
       THEN /\ chain' = chain
            /\ lastGen' = [ran |-> TRUE, commands |-> commands, before |-> chain,
                           alerted |-> TRUE]
       ELSE /\ chain' = AppendBlocks(chain, commands, 1)
            /\ lastGen' = [ran |-> TRUE, commands |-> commands, before |-> chain,
                           alerted |-> FALSE]
    /\ UNCHANGED <<hasStart, notCmdVars>>

\* the user types another prompt: the handler can run again
NextPrompt ==
  /\ lastGen.ran
  /\ Len(chain) <= MaxChain
  /\ lastGen' = NoGen
  /\ UNCHANGED <<hasStart, chain, notCmdVars>>

NextCmd ==
  \/ AiGenerate
  \/ NextPrompt

SpecCmd == InitCmd /\ [][NextCmd]_vars

\* ------------------------------------------- the level manager on its own
\* everything but the level manager's own state
notLmVars ==
  <<scenePhase, ready, cacheHasMap, restartPending, levelConfig, isoMap,
    isoPlayer, players, queue, running, drainScene, sceneIsMoving, entries,
    pending, startOrder, settleOrder, lastMoveTo, calls, items, dropChecks,
    snapshots, hasStart, chain, lastGen, tilemap, lastQuery, demoVars, runs>>

\* records a session can find in localStorage: none, a text that is not
\* JSON, and records written by earlier sessions
StoredInputs ==
  {NoItem, TextItem, Stringify(Progress(2, <<>>)), Stringify(Progress(3, <<1, 2>>))}

\* JSON values of another shape: null, an object without a completed list
CorruptInputs == {Stringify(NullProgress), Stringify(OnlyCurrent(2))}

\* the elements of a list
Range(seq) == {seq[k] : k \in 1..Len(seq)}

InitUnmade ==
  /\ InitScene
  /\ InitDemo
  /\ currentLevel = 0
  /\ lmPhase = "none"
  /\ lmLast = NoCall
  /\ passed = IF stored.kind = "json" /\ stored.value.hasCompleted
              THEN Range(stored.value.completed) ELSE {}
  /\ items = <<>>
  /\ dropChecks = <<>>
  /\ snapshots = <<>>
  /\ hasStart = TRUE
  /\ chain = <<>>
  /\ lastGen = NoGen
  /\ tilemap = NewTilemap(WarehouseMap)
  /\ lastQuery = NoQuery

InitLevels == stored \in StoredInputs /\ InitUnmade

InitStored == stored \in StoredInputs \cup CorruptInputs /\ InitUnmade

\* arguments the callers pass
GoToInputs == {0, 1, 3, maxLevels, maxLevels + 1}
CompleteInputs == {1, 3}

\* window.LevelManager = new LevelManager()
Construct ==
  /\ lmPhase = "none"
  /\ LET r == NewLevelManager(stored)
     IN /\ lmPhase' = IF r.raised THEN "raised" ELSE "made"
        /\ currentLevel' = r.currentLevel
        /\ lmLast' = [NoCall EXCEPT !.op = "new", !.raised = r.raised]
  /\ UNCHANGED <<stored, passed, notLmVars>>

GoToLevel == \E levelNumber \in GoToInputs : goToLevel(levelNumber)

nextLevel ==
  /\ lmPhase = "made"
  /\ LET r == nextLevelOn(currentLevel, stored)
     IN /\ currentLevel' = r.currentLevel
        /\ stored' = r.item
        /\ lmLast' = [NoCall EXCEPT !.op = "nextLevel", !.ret = r.ret,
                                    !.raised = r.raised]
  /\ UNCHANGED <<lmPhase, passed, notLmVars>>

completeLevel ==
  \E levelNumber \in CompleteInputs :
    /\ lmPhase = "made"
    /\ LET r == completeLevelOn(stored, levelNumber)
       IN /\ stored' = r.item
          /\ passed' = IF r.raised THEN passed ELSE passed \cup {levelNumber}
          /\ lmLast' = [NoCall EXCEPT !.op = "completeLevel", !.arg = levelNumber,
                                      !.raised = r.raised]
    /\ UNCHANGED <<currentLevel, lmPhase, notLmVars>>

\* getCurrentLevel(): levelData[currentLevel] (the level number stands for
\* its configuration, 0 for undefined)
getCurrentLevel ==
  /\ lmPhase = "made"
  /\ lmLast' = [NoCall EXCEPT !.op = "getCurrentLevel",
                              !.level = IF currentLevel \in 1..maxLevels
                                        THEN currentLevel ELSE 0]
  /\ UNCHANGED <<currentLevel, stored, lmPhase, passed, notLmVars>>

getLevel ==
  \E levelNumber \in GoToInputs :
    /\ lmPhase = "made"
    /\ lmLast' = [NoCall EXCEPT !.op = "getLevel", !.arg = levelNumber,
                                !.level = IF levelNumber \in 1..maxLevels
                                          THEN levelNumber ELSE 0]
    /\ UNCHANGED <<currentLevel, stored, lmPhase, passed, notLmVars>>

getProgressCall ==
  /\ lmPhase = "made"
  /\ lmLast' = [NoCall EXCEPT !.op = "getProgress", !.progress = getProgress(stored)]
  /\ UNCHANGED <<currentLevel, stored, lmPhase, passed, notLmVars>>

NextLevels ==
  \/ Construct
  \/ GoToLevel
  \/ nextLevel
  \/ completeLevel
  \/ getCurrentLevel
  \/ getLevel
  \/ getProgressCall

SpecLevels == InitLevels /\ [][NextLevels]_vars

\* the same over records of every shape
SpecStored == InitStored /\ [][NextLevels]_vars

\* ------------------------------------------------ the tilemap on its own
\* a tilemap is constructed over some map, built, and queried
entityVars ==
  <<scenePhase, ready, cacheHasMap, restartPending, currentLevel, levelConfig,
    isoMap, isoPlayer, players, queue, running, drainScene, sceneIsMoving,
    entries, pending, startOrder, settleOrder, lastMoveTo, calls,
    items, dropChecks, snapshots, hasStart, chain, lastGen, stored, lmPhase,
    lmLast, passed, demoVars, runs>>

InitMap ==
  /\ InitScene
  /\ InitManager
  /\ InitDemo
  /\ currentLevel = 1
  /\ \E mapData \in MapInputs : tilemap = NewTilemap(mapData)
  /\ lastQuery = NoQuery

\* cells and layer names the queries are made with
QueryCells == ((0..(GridWidth - 1)) \X (0..(GridHeight - 1))) \cup {<<GridWidth, 0>>}
QueryLayers == TileLayerNames \cup ObjectLayerNames \cup {"Walls"}
ProjectCells == (0..GridWidth) \X ((0 - 1)..(GridHeight - 1))
MoveCells == QueryCells \cup {<<0 - 1, 0>>}

Build ==
  /\ ~tilemap.built /\ ~tilemap.raised
  /\ tilemap' = build(tilemap)
  /\ UNCHANGED <<lastQuery, entityVars>>

GetTileAt ==
  \E c \in QueryCells, layerName \in QueryLayers :
    /\ lastQuery' = [NoQuery EXCEPT !.kind = "getTileAt", !.gridX = c[1],
                                    !.gridY = c[2], !.layerName = layerName,
                                    !.tile = getTileAt(tilemap, c[1], c[2], layerName)]
    /\ UNCHANGED <<tilemap, entityVars>>

GetAllTilesAt ==
  \E c \in QueryCells :
    /\ lastQuery' = [NoQuery EXCEPT !.kind = "getAllTilesAt", !.gridX = c[1],
                                    !.gridY = c[2],
                                    !.tiles = getAllTilesAt(tilemap, c[1], c[2])]
    /\ UNCHANGED <<tilemap, entityVars>>

\* screenToGrid(gridToScreen(x, y, 0))
RoundTrip ==
  \E c \in ProjectCells :
    /\ LET screenPos == gridToScreen(tilemap, c[1], c[2], 0)
       IN lastQuery' = [NoQuery EXCEPT !.kind = "roundTrip", !.gridX = c[1],
                                       !.gridY = c[2], !.screen = screenPos,
                                       !.grid = screenToGrid(tilemap, screenPos.x,
                                                             screenPos.y)]
    /\ UNCHANGED <<tilemap, entityVars>>

\* moveTo(x, y) of an idle player that stands on the built tilemap
MoveToOnMap ==
  \E c \in MoveCells :
    /\ tilemap.built
    /\ lastQuery' = [NoQuery EXCEPT !.kind = "moveTo", !.gridX = c[1],
                                    !.gridY = c[2],
                                    !.refused = MoveToRefusedOn(tilemap,
                                                  NewPlayer(0, 0, 0), c[1], c[2])]
    /\ UNCHANGED <<tilemap, entityVars>>

NextMap ==
  \/ Build
  \/ GetTileAt
  \/ GetAllTilesAt
  \/ RoundTrip
  \/ MoveToOnMap

SpecMap == InitMap /\ [][NextMap]_vars

\* ================================================================== claims
EntryIds == 1..Len(entries)
Started(e) == entries[e].st # "queued"
Ascending(seq) == \A j, k \in 1..Len(seq) : j < k => seq[j] < seq[k]
InBounds(x, y) == 0 <= x /\ x < MapWidth /\ 0 <= y /\ y < MapHeight

\* C1: queue entries are started in the order their calls were issued, each
\* one only after every earlier one has settled, so the entity mutations of
\* the calls complete in call order; the backlog is dequeued strictly FIFO.
C1_QueueOrdering ==
  /\ \A k \in 1..Len(startOrder) : startOrder[k] = k
  /\ \A k \in 1..Len(settleOrder) : settleOrder[k] = k
  /\ \A e \in EntryIds :
       Started(e) => \A d \in 1..(e - 1) : entries[d].st = "settled"
  /\ \A k \in 1..Len(pending) :
       pending[k].owner # 0 => entries[pending[k].owner].st = "running"
  /\ Ascending(queue)
  /\ \A k \in 1..Len(queue) : entries[queue[k]].st = "queued"

\* three calls, the second and third issued before the first settled, have
\* all settled
C1_Witness ==
  /\ Len(entries) = 3
  /\ entries[2].behind >= 1
  /\ entries[3].behind = 2
  /\ settleOrder = <<1, 2, 3>>
  /\ entries[1].out = "true" /\ entries[2].out = "true" /\ entries[3].out = "true"

\* C2: at most one dequeued operation is unsettled at any time, and the
\* _running flag is set exactly while one is (a single drain loop).
C2_OneAtATime ==
  /\ Cardinality({e \in EntryIds : entries[e].st = "running"}) <= 1
  /\ running <=> (\E e \in EntryIds : entries[e].st = "running")

\* two callers have enqueued while the first operation is still in flight
C2_Witness ==
  /\ Len(entries) = 3
  /\ entries[1].st = "running" /\ entries[1].wait = "pending"
  /\ queue = <<2, 3>>

\* C3: a step that settles an entry whose operation returned false resolves
\* that signal with false, one whose operation raised rejects it; no other
\* signal is touched, and a waiting next entry is started in the same step.
C3_Step ==
  \A e \in EntryIds :
    (entries[e].st = "running" /\ entries'[e].st = "settled"
     /\ entries'[e].val \in {"false", "error"}) =>
      /\ entries'[e].val = "false" => entries'[e].out = "false"
      /\ entries'[e].val = "error" => entries'[e].out = "rejected"
      /\ \A d \in EntryIds \ {e} : entries'[d].out = entries[d].out
      /\ queue # <<>> =>
           /\ queue' = Tail(queue)
           /\ entries'[Head(queue)].st = "running"
           /\ startOrder' = Append(startOrder, Head(queue))

C3_FailureDoesNotBlock == [][C3_Step]_vars

\* an operation raised, its signal was rejected, and the entry behind it ran
C3_Witness ==
  /\ Len(entries) >= 2
  /\ entries[1].out = "rejected"
  /\ entries[2].out = "false"

\* C4: no operation is started (nor settled) before ready() has resolved.
C4_ReadinessGating == \A e \in EntryIds : Started(e) => ready

\* C5: ready, once resolved, stays resolved, and at the step that resolves it
\* the scene's entity exists.
C5_ReadyOnceEntityExists ==
  [][(ready => ready') /\ ((~ready /\ ready') => isoPlayer' # 0)]_vars

\* C6: a moveTo call whose entity is in transition, or whose target is out of
\* the grid, or whose target has a 'Props' tile, is refused: it returns false,
\* starts no transition and leaves every field of the entity as it was.
C6_MovementSafety ==
  lastMoveTo.n > 0 =>
    ((\/ lastMoveTo.before.isMoving
      \/ ~InBounds(lastMoveTo.x, lastMoveTo.y)
      \/ <<lastMoveTo.x, lastMoveTo.y>> \in PropsCells) =>
       /\ ~lastMoveTo.ok
       /\ ~lastMoveTo.started
       /\ lastMoveTo.after = lastMoveTo.before)

\* a moveTo to a free cell in the grid was refused because a transition of
\* the entity is in flight
C6_Witness ==
  /\ lastMoveTo.n > 0
  /\ ~lastMoveTo.ok
  /\ InBounds(lastMoveTo.x, lastMoveTo.y)
  /\ <<lastMoveTo.x, lastMoveTo.y>> \notin PropsCells
  /\ lastMoveTo.before.isMoving
  /\ lastMoveTo.after = lastMoveTo.before

\* C7: while a move tween is pending its entity is marked moving and still
\* reports the cell it left; the position changes, and the flag is cleared,
\* only in the completion step of that entity's pending tween, which puts the
\* entity on the tween's target cell and resolves the move with true (the
\* flag is set again in that step only by a next move starting from there).
C7_InFlight ==
  \A k \in 1..Len(pending) :
    pending[k].kind = "tween" =>
      /\ players[pending[k].pid].isMoving
      /\ players[pending[k].pid].gridX = pending[k].fromX
      /\ players[pending[k].pid].gridY = pending[k].fromY

C7_Step ==
  \A pid \in 1..Len(players) :
    (\/ players'[pid].gridX # players[pid].gridX
     \/ players'[pid].gridY # players[pid].gridY
     \/ (players[pid].isMoving /\ ~players'[pid].isMoving)) =>
      \E k \in 1..Len(pending) :
        /\ pending[k].kind = "tween" /\ pending[k].pid = pid
        /\ players[pid].isMoving
        /\ players'[pid].gridX = pending[k].x
        /\ players'[pid].gridY = pending[k].y
        /\ players'[pid].isMoving =>
             \E j \in 1..Len(pending') :
               /\ pending'[j].kind = "tween" /\ pending'[j].pid = pid
               /\ pending'[j].fromX = pending[k].x
               /\ pending'[j].fromY = pending[k].y
        /\ (pending[k].owner # 0 /\ entries[pending[k].owner].phase = "ret") =>
             entries'[pending[k].owner].out = "true"
        /\ (pending[k].owner # 0 /\ entries[pending[k].owner].phase = "step") =>
             entries'[pending[k].owner].i = entries[pending[k].owner].i + 1

C7_PositionAtCompletion == []C7_InFlight /\ [][C7_Step]_vars

\* an accepted setPosition has completed: the entity stands on the target
C7_Witness ==
  \E e \in EntryIds :
    /\ entries[e].op = "setPosition" /\ entries[e].out = "true"
    /\ players[entries[e].p0.pid].gridX = entries[e].a
    /\ players[entries[e].p0.pid].gridY = entries[e].b
    /\ ~players[entries[e].p0.pid].isMoving
    /\ entries[e].p0.x # entries[e].a

\* C8: no two pending transitions (move tweens, rotation or face settles)
\* have the same entity as target.
C8_OneTransitionPerEntity ==
  \A j, k \in 1..Len(pending) : j # k => pending[j].pid # pending[k].pid

\* a move tween is in flight while a rotation and a move wait in the backlog
C8_Witness ==
  /\ Len(pending) = 1 /\ pending[1].kind = "tween"
  /\ Len(queue) = 2
  /\ entries[queue[1]].op = "rotateLeft"
  /\ entries[queue[2]].op = "moveForward"

\* C9: the scene's entity is not destroyed or replaced while a transition
\* started by a queue entry is in flight on it.
C9_ResetSerialized ==
  [][(\E k \in 1..Len(pending) :
        pending[k].owner # 0 /\ pending[k].pid = isoPlayer)
     => isoPlayer' = isoPlayer]_vars

\* offset of cell (x, y) from the start cell of entry ent, along the line of
\* its multi-step, or -1 when the cell is not on that line ahead of the start
Vec(d, sign) ==
  CASE d = 0 -> <<0, sign>>
    [] d = 1 -> <<sign, 0>>
    [] d = 2 -> <<0 - sign, 0>>
    [] d = 3 -> <<0, 0 - sign>>

CellsAway(ent, pl, m) ==
  LET v == Vec(ent.p0.d, IF ent.op = "moveForward" THEN 1 ELSE 0 - 1)
  IN /\ pl.gridX = ent.p0.x + m * v[1]
     /\ pl.gridY = ent.p0.y + m * v[2]

\* C10: when a moveForward(n) / moveBackward(n) that started on an entity
\* settles, it resolved true with the entity n cells from its start, or false
\* with the entity m < n cells from its start and the next cell refused.
C10_Step ==
  \A e \in EntryIds :
    (/\ entries[e].st = "running" /\ entries'[e].st = "settled"
     /\ entries[e].op \in {"moveForward", "moveBackward"}
     /\ entries[e].p0.pid # 0) =>
      LET ent == entries'[e]
          pl == players'[ent.p0.pid]
          v == Vec(ent.p0.d, IF ent.op = "moveForward" THEN 1 ELSE 0 - 1)
      IN \/ ent.out = "true" /\ CellsAway(ent, pl, ent.a)
         \/ /\ ent.out = "false"
            /\ \E m \in 0..(ent.a - 1) :
                 /\ CellsAway(ent, pl, m)
                 /\ \/ ~InBounds(pl.gridX + v[1], pl.gridY + v[2])
                    \/ <<pl.gridX + v[1], pl.gridY + v[2]>> \in PropsCells

C10_PartialMultiStep == [][C10_Step]_vars

\* the two turn permutations as the direction each direction is mapped to
LeftTurn == [d \in 0..3 |-> CASE d = 0 -> 1 [] d = 1 -> 3 [] d = 3 -> 2 [] d = 2 -> 0]
RightTurn == [d \in 0..3 |-> CASE d = 0 -> 2 [] d = 2 -> 3 [] d = 3 -> 1 [] d = 1 -> 0]

\* C11: the step that starts a rotateLeft / rotateRight on an entity maps the
\* direction the entity had when rotate was called by the left permutation 0->1, 1->3, 3->2, 2->0, respectively
\* the right permutation 0->2, 2->3, 3->1, 1->0, leaves its cell alone and
\* leaves the call unsettled with the settle timer pending; the call settles
\* only in a step in which its settle timer was pending, and with true.
C11_Step ==
  \A e \in 1..Len(entries') :
    LET was == IF e <= Len(entries) THEN entries[e].st ELSE "queued"
        ent == entries'[e]
        pid == ent.p0.pid
    IN (ent.op \in {"rotateLeft", "rotateRight"} /\ pid # 0) =>
         /\ (was = "queued" /\ ent.st # "queued") =>
              /\ players'[pid].direction =
                   IF ent.op = "rotateLeft"
                   THEN LeftTurn[ent.p0.d]
                   ELSE RightTurn[ent.p0.d]
              /\ players'[pid].gridX = ent.p0.x
              /\ players'[pid].gridY = ent.p0.y
              /\ ent.st = "running" /\ ent.out = "none"
              /\ \E k \in 1..Len(pending') :
                   pending'[k].kind = "timer" /\ pending'[k].owner = e
         /\ (was = "running" /\ ent.st = "settled") =>
              /\ ent.out = "true"
              /\ \E k \in 1..Len(pending) :
                   pending[k].kind = "timer" /\ pending[k].owner = e

C11_RotatePermutations == [][C11_Step]_vars

\* a left turn from west (2) has settled with the entity facing south (0)
C11_Witness ==
  \E e \in EntryIds :
    /\ entries[e].op = "rotateLeft" /\ entries[e].out = "true"
    /\ entries[e].p0.d = 2
    /\ e = Len(entries)
    /\ players[entries[e].p0.pid].direction = 0

\* C12: a rotate called on an entity while a transition of that entity is
\* in flight (a move tween or a rotation settle is pending) is rejected: it
\* does not resolve true and leaves the entity's direction and cell as they
\* were, and the queue is not touched.
C12_Step ==
  (/\ Len(pending') = Len(pending) + 1
   /\ SubSeq(pending', 1, Len(pending)) = pending
   /\ pending'[Len(pending')].kind = "timer"
   /\ pending'[Len(pending')].owner = 0
   /\ \E k \in 1..Len(pending) : pending[k].pid = pending'[Len(pending')].pid) =>
    LET pid == pending'[Len(pending')].pid
    IN /\ players'[pid] = players[pid]
       /\ pending'[Len(pending')].val # "true"
       /\ UNCHANGED queueVars

C12_RotateConflictRejected == [][C12_Step]_vars

\* the completion callback of a transition of entry e runs in this step
Fired(e) ==
  /\ ~restartPending
  /\ \E k \in 1..Len(pending) :
       /\ pending[k].owner = e
       /\ \A j \in 1..Len(pending') : pending'[j] # pending[k]

\* C13: as long as the completion callback of the running entry's transition
\* does not fire, the entry stays unsettled, no entry is started or settled,
\* and calls made meanwhile are appended to the backlog, which keeps its
\* order; there is no step that times the entry out or cancels it.
C13_Step ==
  \A e \in EntryIds :
    (entries[e].st = "running" /\ entries[e].wait = "pending" /\ ~Fired(e)) =>
      /\ entries'[e].st = "running" /\ entries'[e].wait = "pending"
      /\ entries'[e].out = "none"
      /\ startOrder' = startOrder
      /\ settleOrder' = settleOrder
      /\ running'
      /\ Len(queue') >= Len(queue)
      /\ SubSeq(queue', 1, Len(queue)) = queue
      /\ Ascending(queue')

C13_StallBlocksQueue == [][C13_Step]_vars

\* the scene was shut down with a move in flight, so its tween will never
\* complete: the entry is unsettled and a later call waits behind it
C13_Witness ==
  /\ Len(entries) = 2
  /\ entries[1].st = "running" /\ entries[1].wait = "pending"
  /\ pending = <<>>
  /\ ~restartPending
  /\ scenePhase = "created"
  /\ queue = <<2>>

\* C14: when every started transition's completion callback eventually
\* fires, then from every state a state is eventually reached in which every
\* entry created so far is settled, the drain has stopped with an empty
\* backlog and no entity is in transition; an entity is idle when constructed.
Quiet ==
  /\ \A e \in EntryIds : entries[e].st = "settled"
  /\ ~running /\ queue = <<>>
  /\ \A pid \in 1..Len(players) : ~players[pid].isMoving

C14_Liveness ==
  /\ []<>Quiet
  /\ [][\A pid \in (Len(players) + 1)..Len(players') : ~players'[pid].isMoving]_vars

\* three calls have been served, the entity has moved and is idle again and
\* the drain has stopped
C14_Witness ==
  /\ Len(entries) = 3
  /\ \A e \in EntryIds : entries[e].out = "true"
  /\ \E e \in EntryIds : entries[e].op = "moveForward"
  /\ ~running /\ queue = <<>> /\ pending = <<>>
  /\ isoPlayer # 0 /\ ~players[isoPlayer].isMoving

\* C15: for every integer cell (x, y) in the grid of the map,
\* screenToGrid(gridToScreen(x, y, 0)) is exactly (x, y).
C15_RoundTrip ==
  (/\ lastQuery.kind = "roundTrip"
   /\ 0 <= lastQuery.gridX /\ lastQuery.gridX < tilemap.mapWidth
   /\ 0 <= lastQuery.gridY /\ lastQuery.gridY < tilemap.mapHeight) =>
    /\ lastQuery.screen = gridToScreen(tilemap, lastQuery.gridX, lastQuery.gridY, 0)
    /\ lastQuery.grid = [x |-> lastQuery.gridX, y |-> lastQuery.gridY]

\* cell (0, 1) of a map with odd tile sizes was projected to the left of the
\* origin (screen x negative) and mapped back to (0, 1)
C15_Witness ==
  /\ lastQuery.kind = "roundTrip"
  /\ tilemap.tileWidth = 3
  /\ lastQuery.gridX = 0 /\ lastQuery.gridY = 1
  /\ lastQuery.screen.x < 0
  /\ lastQuery.grid = [x |-> 0, y |-> 1]

\* C16: after build() (which ends with updateDepth()) the depth of every
\* sprite is its position 0..n-1 in allSprites; of two sprites of one layer
\* the one with the smaller grid Y, or with equal Y the smaller grid X, has
\* the smaller depth; of two sprites of different layers the one of the
\* layer with the lower index has the smaller depth wherever they stand.
C16_DepthOrdering ==
  tilemap.built =>
    LET all == tilemap.allSprites
    IN /\ \A k \in 1..Len(all) : all[k].depth = k - 1
       /\ \A j, k \in 1..Len(all) :
            /\ (all[j].gridZ = all[k].gridZ /\ all[j].gridY < all[k].gridY)
                 => all[j].depth < all[k].depth
            /\ (all[j].gridZ = all[k].gridZ /\ all[j].gridY = all[k].gridY
                 /\ all[j].gridX < all[k].gridX)
                 => all[j].depth < all[k].depth
            /\ all[j].gridZ < all[k].gridZ => all[j].depth < all[k].depth
            /\ j # k => all[j].depth # all[k].depth

\* a built map whose lower layer has a tile in the last row and whose upper
\* layer has tiles in both rows
C16_Witness ==
  /\ tilemap.built
  /\ \E j, k, l \in 1..Len(tilemap.allSprites) :
       /\ tilemap.allSprites[j].gridZ = 0
       /\ tilemap.allSprites[j].gridY = GridHeight - 1
       /\ tilemap.allSprites[k].gridZ = 1 /\ tilemap.allSprites[k].gridY = 0
       /\ tilemap.allSprites[l].gridZ = 1 /\ tilemap.allSprites[l].gridY = 1
       /\ tilemap.allSprites[j].depth < tilemap.allSprites[k].depth
       /\ tilemap.allSprites[k].depth < tilemap.allSprites[l].depth

\* entry of cell (x, y) in the row-major data of a layer
DataAt(tm, layer, x, y) == layer.data[y * tm.mapWidth + x + 1]

C18_EmptyLayerList ==
  (/\ ~tilemap.mapData.layers.present \/ tilemap.mapData.layers.list = <<>>
   /\ tilemap.built \/ tilemap.raised) =>
    /\ tilemap.built /\ ~tilemap.raised
    /\ tilemap.allSprites = <<>>
    /\ tilemap.layers = <<>> /\ tilemap.layerSprites = <<>>
    /\ \A c \in QueryCells :
         /\ \A layerName \in QueryLayers :
              ~getTileAt(tilemap, c[1], c[2], layerName).found
         /\ getAllTilesAt(tilemap, c[1], c[2]) = <<>>
    /\ lastQuery.kind = "getTileAt" => ~lastQuery.tile.found
    /\ lastQuery.kind = "getAllTilesAt" => lastQuery.tiles = <<>>

\* a map without a layer list was built and then asked for all tiles of a cell
C18_Witness ==
  /\ ~tilemap.mapData.layers.present
  /\ tilemap.built
  /\ lastQuery.kind = "getAllTilesAt"
  /\ lastQuery.tiles = <<>>

\* names that are keys of this.layerSprites
KnownLayers(tm) == {tm.layerSprites[k].name : k \in 1..Len(tm.layerSprites)}

\* the results of queries on a layer name the tilemap holds no list for
C19_Unknown ==
  /\ \A layerName \in QueryLayers \ KnownLayers(tilemap), c \in QueryCells :
       getTileAt(tilemap, c[1], c[2], layerName) = NullTile
  /\ (lastQuery.kind = "getTileAt" /\ lastQuery.layerName \notin KnownLayers(tilemap))
       => (~lastQuery.tile.found /\ ~lastQuery.tile.raised)
  /\ (/\ lastQuery.kind = "moveTo"
      /\ \A i \in 1..Len(tilemap.mapData.layers.list) :
           tilemap.mapData.layers.list[i].name # "Props"
      /\ 0 <= lastQuery.gridX /\ lastQuery.gridX < tilemap.mapWidth
      /\ 0 <= lastQuery.gridY /\ lastQuery.gridY < tilemap.mapHeight)
       => ~lastQuery.refused

C20_Scenario ==
  /\ calls = 2
  /\ Len(entries) = 2
  /\ entries[1].op = "face" /\ entries[1].name = "east"
  /\ entries[2].op = "moveForward" /\ entries[2].a = 2
  /\ entries[1].st = "settled" /\ entries[2].st = "settled"
  /\ entries[1].p0.pid # 0
  /\ entries[1].p0.x = 1 /\ entries[1].p0.y = 6 /\ entries[1].p0.d = 0
  /\ entries[2].p0.pid = entries[1].p0.pid
  /\ isoPlayer = entries[1].p0.pid

\* C20: from the level-1 start (1,6) facing south, face("east") followed by
\* moveForward(2) leaves the player at (3,6) facing east (direction 1), idle,
\* and both calls resolve true.
C20_FaceThenMoveForward ==
  C20_Scenario =>
    /\ entries[1].out = "true"
    /\ entries[2].out = "true"
    /\ players[isoPlayer].gridX = 3
    /\ players[isoPlayer].gridY = 6
    /\ players[isoPlayer].direction = 1
    /\ ~players[isoPlayer].isMoving

C20_Witness ==
  /\ C20_Scenario
  /\ players[isoPlayer].gridX = 3
  /\ players[isoPlayer].gridY = 6
  /\ entries[2].out = "true"

\* the goal cells and the conveyor cells of level l, as the level table and
\* the map give them
GoalCell(l, x, y) ==
  \/ l = 1 /\ <<x, y>> = <<7, 0>>
  \/ l = 2 /\ <<x, y>> \in {<<7, 7>>, <<7, 5>>}
ConveyorCell(l, x, y) == l \in {1, 2} /\ <<x, y>> \in ConveyorCells

\* the queue entries whose fn() made drop check k
ChecksOf(e) == {k \in 1..Len(dropChecks) : dropChecks[k].owner = e}

\* C21: a drop check at (x, y) yields "win" when (x, y) is a goal cell of the
\* level, "lose" when it is neither a goal cell nor a cell with a tile on the
\* conveyor layer, and "continue" otherwise; a check made through
\* GameAPI.dropItem belongs to a drop that succeeded and is made at the cell
\* in front of the entity at the time of the drop, once per successful drop.
C21_DropRule ==
  /\ \A k \in 1..Len(dropChecks) :
       LET c == dropChecks[k]
       IN /\ GoalCell(c.level, c.x, c.y) => c.result = "win"
          /\ (~GoalCell(c.level, c.x, c.y) /\ ~ConveyorCell(c.level, c.x, c.y))
               => c.result = "lose"
          /\ (~GoalCell(c.level, c.x, c.y) /\ ConveyorCell(c.level, c.x, c.y))
               => c.result = "continue"
          /\ c.owner # 0 =>
               LET ent == entries[c.owner]
                   v == Vec(ent.p0.d, 1)
               IN /\ ent.op = "dropItem"
                  /\ ent.st # "queued"
                  /\ ent.val = "true"
                  /\ ent.p0.pid = c.pid
                  /\ c.x = ent.p0.x + v[1]
                  /\ c.y = ent.p0.y + v[2]
  /\ \A e \in EntryIds :
       /\ Cardinality(ChecksOf(e)) <= 1
       /\ (entries[e].op = "dropItem" /\ Started(e))
            => (ChecksOf(e) # {} <=> entries[e].val = "true")

\* a drop through the API was checked and lost, and a check at a goal cell won
C21_Witness ==
  /\ \E k \in 1..Len(dropChecks) :
       dropChecks[k].owner # 0 /\ dropChecks[k].result = "lose"
  /\ \E k \in 1..Len(dropChecks) : dropChecks[k].result = "win"

\* the item entries that succeeded on player pid, in the order they ran
ItemSuccesses(pid) ==
  SelectSeq(startOrder,
            LAMBDA e : /\ entries[e].op \in {"pickupItem", "dropItem"}
                       /\ entries[e].val = "true"
                       /\ entries[e].p0.pid = pid)

\* an item on the ground within one cell of (x, y)
Near(it, x, y) ==
  ~it.held /\ it.x - x \in {0 - 1, 0, 1} /\ it.y - y \in {0 - 1, 0, 1}

\* the step in which the fn() of a pickupItem or dropItem entry runs
C22_Step ==
  \A e \in 1..Len(entries') :
    LET was == IF e <= Len(entries) THEN entries[e].st ELSE "queued"
        ent == entries'[e]
        pid == ent.p0.pid
        v == Vec(ent.p0.d, 1)
    IN (was = "queued" /\ ent.st # "queued"
          /\ ent.op \in {"pickupItem", "dropItem"}) =>
         IF ent.val = "true"
         THEN /\ pid # 0
              /\ IF ent.op = "pickupItem"
                 THEN /\ players[pid].carriedItem = 0
                      /\ \E i \in 1..Len(items) :
                           /\ Near(items[i], ent.p0.x, ent.p0.y)
                           /\ players'[pid].carriedItem = i
                           /\ items' = [items EXCEPT ![i].held = TRUE]
                 ELSE /\ players[pid].carriedItem # 0
                      /\ players'[pid].carriedItem = 0
                      /\ items' = [items EXCEPT ![players[pid].carriedItem] =
                                     [x |-> ent.p0.x + v[1], y |-> ent.p0.y + v[2],
                                      held |-> FALSE]]
         ELSE /\ items' = items
              /\ pid # 0 => players'[pid].carriedItem = players[pid].carriedItem

\* C22: pickupItem succeeds only when nothing is carried and an item lies at
\* or next to the entity's cell; dropItem succeeds only when an item is
\* carried and puts it on the cell in front of the entity; on one entity the
\* successful pickups and drops alternate, starting with a pickup; a failed
\* pickup or drop leaves the carrying flag and the items unchanged.
C22_CarryProtocol ==
  /\ [][C22_Step]_vars
  /\ [](\A pid \in 1..Len(players) :
          \A k \in 1..Len(ItemSuccesses(pid)) :
            entries[ItemSuccesses(pid)[k]].op =
              IF k % 2 = 1 THEN "pickupItem" ELSE "dropItem")

\* pickup, drop and pickup again all succeeded on one entity
C22_Witness ==
  /\ Len(entries) = 3
  /\ \A e \in 1..3 : entries[e].st = "settled" /\ entries[e].out = "true"
  /\ entries[1].op = "pickupItem"
  /\ entries[2].op = "dropItem"
  /\ entries[3].op = "pickupItem"
  /\ isoPlayer # 0 /\ players[isoPlayer].carriedItem # 0

\* a drop with nothing carried and a pickup while carrying both failed
C22_WitnessFailures ==
  /\ Len(entries) = 3
  /\ entries[1].op = "dropItem" /\ entries[1].out = "false" /\ entries[1].p0.pid # 0
  /\ entries[2].op = "pickupItem" /\ entries[2].out = "true"
  /\ entries[3].op = "pickupItem" /\ entries[3].out = "false"

\* the record as the level manager reads it
Persisted == getProgress(stored)
PersistedNext == getProgress(stored')

\* C23: goToLevel(n) with 1 <= n <= maxLevels sets the current level to n,
\* persists it and returns true; for any other n it returns false and
\* leaves the current level and the persisted record unchanged.
C23_Step ==
  lmLast'.op = "goToLevel" =>
    IF 1 <= lmLast'.arg /\ lmLast'.arg <= 8
    THEN /\ lmLast'.ret /\ ~lmLast'.raised
         /\ currentLevel' = lmLast'.arg
         /\ stored'.kind = "json"
         /\ PersistedNext.hasCurrent /\ PersistedNext.currentLevel = lmLast'.arg
    ELSE /\ ~lmLast'.ret /\ ~lmLast'.raised
         /\ currentLevel' = currentLevel
         /\ stored' = stored

C24_Step ==
  lmLast'.op = "nextLevel" =>
    IF currentLevel = 8
    THEN /\ ~lmLast'.ret /\ ~lmLast'.raised
         /\ currentLevel' = currentLevel
         /\ stored' = stored
    ELSE /\ currentLevel < 8
         /\ lmLast'.ret /\ ~lmLast'.raised
         /\ currentLevel' = currentLevel + 1
         /\ stored'.kind = "json"
         /\ PersistedNext.hasCurrent /\ PersistedNext.currentLevel = currentLevel + 1

C26_FailSoft ==
  /\ lmPhase # "raised"
  /\ ~lmLast.raised

\* C27: goToLevel and nextLevel never change the completed list,
\* completeLevel never changes the persisted or the in-memory current level,
\* and getCurrentLevel, getLevel and getProgress change nothing.
C27_Step ==
  /\ lmLast'.op \in {"goToLevel", "nextLevel"} =>
       PersistedNext.completed = Persisted.completed
  /\ lmLast'.op = "completeLevel" =>
       /\ currentLevel' = currentLevel
       /\ PersistedNext.currentLevel = Persisted.currentLevel
  /\ lmLast'.op \in {"getCurrentLevel", "getLevel", "getProgress"} =>
       /\ currentLevel' = currentLevel
       /\ stored' = stored

C27_ProgressFrame == [][C27_Step]_vars

\* goToLevel(8) on a record with completed levels: the list is as it was
C27_Witness ==
  /\ lmLast.op = "goToLevel" /\ lmLast.ret
  /\ currentLevel = 8
  /\ Persisted.currentLevel = 8
  /\ Persisted.completed = <<1, 2, 3>>

\* the entity and the queue
EntityAndQueue == <<players, isoPlayer, queue, running, entries, pending>>

\* C28: getState() changes neither the entity nor the queue; an object it
\* returned earlier keeps the values it had when the entity later moves or
\* rotates; and assigning to a returned object does not change the entity.
C28_GetStateSnapshot ==
  /\ [](\A k \in 1..Len(snapshots) :
          (~snapshots[k].obj.isNull /\ ~snapshots[k].edited)
            => Deref(snapshots[k].obj) = snapshots[k].at)
  /\ [][snapshots' # snapshots => EntityAndQueue' = EntityAndQueue]_vars

\* a snapshot taken at the start cell differs from the entity, which has
\* moved on, and another caller has edited its copy
C28_Witness ==
  \E k \in 1..Len(snapshots) :
    /\ snapshots[k].pid = isoPlayer /\ isoPlayer # 0
    /\ snapshots[k].edited
    /\ snapshots[k].at.gridY = 6 /\ snapshots[k].at.direction = 0
    /\ players[isoPlayer].gridY = 7
    /\ ~players[isoPlayer].isMoving

\* a command with a recognized action
Recognized(cmd) ==
  \/ cmd.action \in {"move", "pick", "release", "repeat"}
  \/ /\ cmd.action = "rotate"
     /\ cmd.direction \in {"left", "right", "counter-clockwise", "clockwise"}

\* the block type a recognized command stands for
TypeOf(cmd) ==
  CASE cmd.action = "move" -> "move_forward"
    [] cmd.action = "pick" -> "pick_object"
    [] cmd.action = "release" -> "release_object"
    [] cmd.action = "repeat" -> "controls_repeat"
    [] cmd.action = "rotate" /\ cmd.direction \in {"left", "counter-clockwise"}
         -> "rotate_left"
    [] OTHER -> "rotate_right"

MaxDemoCalls == 4

notDemoVars ==
  <<sceneVars, queueVars, currentLevel, isoPlayer, players, pending, lastMoveTo,
    calls, itemVars, snapshots, cmdVars, lmVars, mapVars, runs>>

\* a later moment of a session: the star was towed to (1, 1) and released,
\* then setPosition(1, 2) and face("up")
DemoTowedStart == [DemoStart EXCEPT !.px = 1, !.py = 2, !.sx = 1, !.sy = 1]

DemoStarts == {DemoStart, DemoTowedStart}

InitTow ==
  /\ InitScene
  /\ InitManager
  /\ tilemap = NewTilemap(WarehouseMap)
  /\ lastQuery = NoQuery
  /\ demo \in DemoStarts
  /\ InitDemoQueue

DemoCall(op, n, dirName, tx, ty) ==
  [op |-> op, n |-> n, dirName |-> dirName, tx |-> tx, ty |-> ty]

\* the calls made on window.GameAPI of the demo
DemoInputs ==
  {DemoCall("toggleTow", 0, "", 0, 0),
   DemoCall("rotateLeft", 0 - 1, "", 0, 0),
   DemoCall("rotateRight", 1, "", 0, 0),
   DemoCall("moveForward", 1, "", 0, 0),
   DemoCall("moveForward", 2, "", 0, 0),
   DemoCall("moveBackward", 1, "", 0, 0),
   DemoCall("face", 0, "up", 0, 0),
   DemoCall("face", 0, "north", 0, 0),
   DemoCall("setPosition", 0, "", 3, 1),
   DemoCall("setPosition", 0, "", 0, 0)}

DemoRunOf(c, g, wait, val) ==
  [DemoIdle EXCEPT !.active = TRUE, !.op = c.op, !.wait = wait, !.val = val,
                   !.start = g]

\* the loop of _multiStep from its test i < steps to its next await or return
multiStepAt(g, run) ==
  IF run.i < run.steps
  THEN LET r == tryStepStart(g, run.sign)
       IN IF r.wait = "ready"
          THEN [g |-> r.g, run |-> [run EXCEPT !.wait = "ready", !.val = FALSE]]
          ELSE [g |-> r.g,
                run |-> [run EXCEPT !.wait = r.wait, !.tx = r.tx, !.ty = r.ty,
                                    !.towed = g.isTowing]]
  ELSE [g |-> g, run |-> [run EXCEPT !.wait = "ready", !.val = TRUE]]

\* onComplete of the tween _toggleTow started
toggleTowDone(g) == [g EXCEPT !.isTowing = TRUE]

\* fn() of a queue entry, up to the promise it returns
demoStartFn(g, c) ==
  CASE c.op = "toggleTow" ->
         LET r == toggleTowStart(g)
         IN [g |-> r.g, run |-> DemoRunOf(c, g, r.wait, r.val)]
    [] c.op \in {"rotateLeft", "rotateRight"} ->
         [g |-> demoRotate(g, c.n),
          run |-> [DemoRunOf(c, g, "timer", FALSE) EXCEPT !.undef = TRUE]]
    [] c.op \in {"moveForward", "moveBackward"} ->
         multiStepAt(g, [DemoRunOf(c, g, "ready", TRUE) EXCEPT
                           !.sign = IF c.op = "moveForward" THEN 1 ELSE 0 - 1,
                           !.steps = c.n])
    [] c.op = "face" ->
         LET r == demoFace(g, c.dirName)
         IN [g |-> r.g, run |-> DemoRunOf(c, g, "ready", r.val)]
    [] c.op = "setPosition" ->
         LET r == demoSetPosition(g, c.tx, c.ty)
         IN [g |-> r.g, run |-> DemoRunOf(c, g, "ready", r.val)]

\* a caller calls a method of the demo's GameAPI: _enqueue, then _drain,
\* which starts the entry at once when no drain is running
DemoEnqueue(c) ==
  /\ demoCalls < MaxDemoCalls
  /\ demoCalls' = demoCalls + 1
  /\ IF demoRun.active
     THEN /\ demoQueue' = Append(demoQueue, c)
          /\ UNCHANGED <<demo, demoRun>>
     ELSE LET s == demoStartFn(demo, c)
          IN /\ demo' = s.g
             /\ demoRun' = s.run
             /\ demoQueue' = <<>>
  /\ UNCHANGED <<demoLog, notDemoVars>>

\* the running entry goes on: a tween or the timer completes, or an await on
\* a settled promise resumes; when fn() has returned, _drain resolves the
\* entry and starts the next one
DemoComplete ==
  /\ demoRun.active
  /\ LET run == demoRun
         step ==
           CASE run.wait = "step2" ->
                  [g |-> demo, run |-> [run EXCEPT !.wait = "step1"], settled |-> FALSE]
             [] run.wait = "step1" ->
                  LET m == multiStepAt(tryStepDone(demo, run.towed, run.tx, run.ty),
                                       [run EXCEPT !.i = run.i + 1])
                  IN [g |-> m.g, run |-> m.run, settled |-> m.run.wait = "ready"]
             [] run.wait = "grab" ->
                  [g |-> toggleTowDone(demo), run |-> run, settled |-> TRUE]
             [] OTHER -> [g |-> demo, run |-> run, settled |-> TRUE]
     IN IF ~step.settled
        THEN /\ demo' = step.g
             /\ demoRun' = step.run
             /\ UNCHANGED <<demoQueue, demoLog>>
        ELSE /\ demoLog' = [op |-> step.run.op, val |-> step.run.val,
                            undef |-> step.run.undef, start |-> step.run.start,
                            end |-> step.g]
             /\ IF demoQueue = <<>>
                THEN /\ demo' = step.g
                     /\ demoRun' = DemoIdle
                     /\ demoQueue' = <<>>
                ELSE LET s == demoStartFn(step.g, Head(demoQueue))
                     IN /\ demo' = s.g
                        /\ demoRun' = s.run
                        /\ demoQueue' = Tail(demoQueue)
  /\ UNCHANGED <<demoCalls, notDemoVars>>

NextTow ==
  \/ \E c \in DemoInputs : DemoEnqueue(c)
  \/ DemoComplete

SpecTow == InitTow /\ [][NextTow]_vars

\* the star is on the tile in front of the player of g
StarInFront(g) ==
  \/ g.dir = 0 /\ g.sx = g.px /\ g.sy = g.py - 1
  \/ g.dir = 1 /\ g.sx = g.px + 1 /\ g.sy = g.py
  \/ g.dir = 2 /\ g.sx = g.px /\ g.sy = g.py + 1
  \/ g.dir = 3 /\ g.sx = g.px - 1 /\ g.sy = g.py

\* the tile behind the player of g, as <<x, y>>
TileBehind(g) ==
  CASE g.dir = 0 -> <<g.px, g.py + 1>>
    [] g.dir = 1 -> <<g.px - 1, g.py>>
    [] g.dir = 2 -> <<g.px, g.py - 1>>
    [] g.dir = 3 -> <<g.px + 1, g.py>>

BehindFree(g) ==
  LET b == TileBehind(g)
  IN /\ b[1] \in 0..9 /\ b[2] \in 0..9
     /\ data[b[2] + 1][b[1] + 1] # 5

C30_WitnessGrabRelease ==
  /\ demoLog.op = "toggleTow"
  /\ demoLog.start.isTowing
  /\ demoLog.val
  /\ demoLog.start.sx # 3

\* C31: after every settled call other than toggleTow that started while the
\* towing flag was set, the star is on the tile behind the player with respect
\* to the direction the player faces.
C31_StarFollowsBehind ==
  (demoLog.op \notin {"", "toggleTow"} /\ demoLog.start.isTowing) =>
    TileBehind(demoLog.end) = <<demoLog.end.sx, demoLog.end.sy>>

\* C40: the player and the star are never on the same tile, and the player is
\* never on a wall tile.
C40_PlayerStarApart ==
  /\ ~(demo.px = demo.sx /\ demo.py = demo.sy)
  /\ data[demo.py + 1][demo.px + 1] # 5

\* ------------------------------------------------------------ program runs
MaxRuns == 2

notRunVars ==
  <<sceneVars, queueVars, currentLevel, isoPlayer, players, pending, lastMoveTo,
    calls, itemVars, snapshots, cmdVars, lmVars, mapVars, demoVars>>

\* a statement of the generated code: await GameAPI.<op>(<a>);
ProgCmd(op, a) == [op |-> op, a |-> a]

\* the programs the workspace generates
Programs ==
  {<<ProgCmd("moveForward", 2)>>,
   <<ProgCmd("rotateLeft", 0), ProgCmd("moveForward", 1)>>}

NoEntity == [pid |-> 0, x |-> 0, y |-> 0, d |-> 0, isMoving |-> FALSE]

\* what a run reads of the scene's entity
EntityNow ==
  IF isoPlayer = 0 THEN NoEntity
  ELSE [pid |-> isoPlayer, x |-> players[isoPlayer].gridX,
        y |-> players[isoPlayer].gridY, d |-> players[isoPlayer].direction,
        isMoving |-> players[isoPlayer].isMoving]

\* an invocation of executeBlocklyCode; phase is "ready" (awaiting
\* GameAPI.ready()), "timer" (awaiting the 100 ms timeout), "running"
\* (awaiting statement pc of the code, queue entry last) or "done"
NewRun(code) ==
  [code |-> code, phase |-> "ready", pc |-> 0, last |-> 0,
   mark |-> 0,     \* number of queue entries that existed at the run's reset
   pid |-> 0,      \* the entity the run's reset created
   level |-> 0,    \* the level the run's reset initialised
   at |-> NoEntity] \* the scene's entity when the code began to execute

\* an await of a run is about to resume: no timer, tween or click runs before it
RunResuming ==
  \E r \in 1..Len(runs) :
    \/ runs[r].phase = "ready" /\ ready
    \/ runs[r].phase = "running" /\ entries[runs[r].last].st = "settled"

\* executeBlocklyCode() is called: workspaceToCode, then await GameAPI.ready()
ExecInvoke ==
  \E code \in Programs :
    /\ Len(runs) < MaxRuns
    /\ ~Busy
    /\ ~RunResuming
    /\ runs' = Append(runs, NewRun(code))
    /\ UNCHANGED notRunVars

\* the run resumes after GameAPI.ready(): GameAPI.resetLevel(), then the
\* 100 ms timeout is set
ExecReset ==
  \E r \in 1..Len(runs) :
    /\ runs[r].phase = "ready"
    /\ ready
    /\ resetLevelCall
    /\ runs' = [runs EXCEPT ![r].phase = "timer", ![r].mark = Len(entries),
                            ![r].pid = isoPlayer', ![r].level = currentLevel]
    /\ UNCHANGED <<calls, snapshots, cmdVars, lmVars, mapVars, demoVars>>

\* the timeout fires: eval of the code, which calls its first statement
ExecTimer ==
  \E r \in 1..Len(runs) :
    /\ runs[r].phase = "timer"
    /\ ~Busy
    /\ ~RunResuming
    /\ EnqueueCall(runs[r].code[1].op, runs[r].code[1].a, 0, "")
    /\ runs' = [runs EXCEPT ![r].phase = "running", ![r].pc = 1,
                            ![r].last = Len(entries) + 1, ![r].at = EntityNow]
    /\ UNCHANGED <<snapshots, cmdVars, lmVars, mapVars, demoVars>>

\* the awaited call resolved and the code calls its next statement
ExecNext ==
  \E r \in 1..Len(runs) :
    /\ runs[r].phase = "running"
    /\ entries[runs[r].last].st = "settled"
    /\ entries[runs[r].last].out # "rejected"
    /\ runs[r].pc < Len(runs[r].code)
    /\ EnqueueCall(runs[r].code[runs[r].pc + 1].op, runs[r].code[runs[r].pc + 1].a, 0, "")
    /\ runs' = [runs EXCEPT ![r].pc = runs[r].pc + 1, ![r].last = Len(entries) + 1]
    /\ UNCHANGED <<snapshots, cmdVars, lmVars, mapVars, demoVars>>

\* the awaited call was rejected (catch), or it was the last statement
ExecEnd ==
  \E r \in 1..Len(runs) :
    /\ runs[r].phase = "running"
    /\ entries[runs[r].last].st = "settled"
    /\ \/ entries[runs[r].last].out = "rejected"
       \/ runs[r].pc = Len(runs[r].code)
    /\ runs' = [runs EXCEPT ![r].phase = "done"]
    /\ UNCHANGED notRunVars

RunTweenComplete == ~RunResuming /\ TweenComplete
RunTimerFire == ~RunResuming /\ TimerFire

NextRun ==
  \/ Preload
  \/ Create
  \/ ExecInvoke
  \/ ExecReset
  \/ ExecTimer
  \/ ExecNext
  \/ ExecEnd
  \/ RunTweenComplete
  \/ RunTimerFire
  \/ MultiStepResume
  \/ DrainResume

SpecRun == Init /\ [][NextRun]_vars

\* C32: when the code of a program run begins to execute, the scene's entity
\* is at the start cell and start direction of the level the run's reset
\* initialised; and no queue entry that existed at a run's reset starts a
\* rotation on, or has a move accepted by, the entity that reset created.
C32_RunStartsFromReset ==
  \A r \in 1..Len(runs) :
    /\ (runs[r].phase \in {"running", "done"} /\ runs[r].at.pid # 0) =>
         /\ runs[r].at.x = LevelStart(runs[r].level).x
         /\ runs[r].at.y = LevelStart(runs[r].level).y
         /\ runs[r].at.d = LevelStart(runs[r].level).direction
    /\ (runs[r].phase # "ready" /\ runs[r].pid # 0) =>
         \A e \in 1..runs[r].mark :
           /\ ~(/\ entries[e].op \in {"rotateLeft", "rotateRight"}
                /\ entries[e].st # "queued"
                /\ entries[e].p0.pid = runs[r].pid)
           /\ ~(/\ lastMoveTo.owner = e
                /\ lastMoveTo.pid = runs[r].pid
                /\ lastMoveTo.ok)

\* a single run: its code began on the entity its reset created
C32_SingleRun ==
  Len(runs) = 1 /\ runs[1].phase = "done" /\ runs[1].at.pid = runs[1].pid

\* C33: at every step of a moveForward(n) / moveBackward(n) entry, that entry
\* is the one started most recently and the only one running (no other
\* entry's operation started since its first step; the next one starts only
\* once it has settled), and a step taken on the
\* entity the call started on goes one cell along the direction that entity
\* had when the first step began.
C33_Step ==
  \A e \in 1..Len(entries') :
    (/\ lastMoveTo'.n # lastMoveTo.n
     /\ lastMoveTo'.owner = e
     /\ entries'[e].op \in {"moveForward", "moveBackward"}) =>
      LET ent == entries'[e]
          v == Vec(ent.p0.d, IF ent.op = "moveForward" THEN 1 ELSE 0 - 1)
      IN /\ IF ent.st = "running"
            THEN /\ startOrder'[Len(startOrder')] = e
                 /\ \A d \in 1..Len(entries') : d # e => entries'[d].st # "running"
            ELSE \* the step was refused and the entry settled in this step
                 /\ startOrder[Len(startOrder)] = e
                 /\ \A d \in 1..Len(entries) : d # e => entries[d].st # "running"
         /\ lastMoveTo'.pid = ent.p0.pid =>
              /\ lastMoveTo'.before.direction = ent.p0.d
              /\ lastMoveTo'.x = lastMoveTo'.before.gridX + v[1]
              /\ lastMoveTo'.y = lastMoveTo'.before.gridY + v[2]

C33_MultiStepAtomic == [][C33_Step]_vars

\* a two-step call took its second step on the entity it started on while a
\* rotation enqueued by another caller was waiting in the backlog
C33_Witness ==
  \E e \in EntryIds :
    /\ entries[e].op \in {"moveForward", "moveBackward"}
    /\ entries[e].a = 2 /\ entries[e].i = 1
    /\ entries[e].st = "running" /\ entries[e].wait = "pending"
    /\ lastMoveTo.owner = e /\ lastMoveTo.ok
    /\ lastMoveTo.pid = entries[e].p0.pid
    /\ \E k \in 1..Len(queue) : entries[queue[k]].op \in {"rotateLeft", "rotateRight"}

\* number of positions of seq that hold x
Occurrences(seq, x) == Cardinality({k \in 1..Len(seq) : seq[k] = x})

\* C34: every entry is in exactly one place: waiting in the backlog once and
\* never started, or started once and not settled, or started once and settled
\* once with its signal resolved or rejected; a settled signal never changes;
\* and whenever the backlog is non-empty the drain is marked running.
C34_Placement ==
  /\ \A e \in EntryIds :
       CASE entries[e].st = "queued" ->
              /\ Occurrences(queue, e) = 1
              /\ Occurrences(startOrder, e) = 0 /\ Occurrences(settleOrder, e) = 0
              /\ entries[e].out = "none"
         [] entries[e].st = "running" ->
              /\ Occurrences(queue, e) = 0
              /\ Occurrences(startOrder, e) = 1 /\ Occurrences(settleOrder, e) = 0
              /\ entries[e].out = "none"
         [] OTHER ->
              /\ Occurrences(queue, e) = 0
              /\ Occurrences(startOrder, e) = 1 /\ Occurrences(settleOrder, e) = 1
              /\ entries[e].out \in {"true", "false", "rejected"}
  /\ \A k \in 1..Len(queue) : queue[k] \in EntryIds
  /\ queue # <<>> => running
  /\ queue # <<>> => \E e \in EntryIds : entries[e].st = "running"

C34_Step ==
  \A e \in EntryIds :
    /\ Len(entries') >= Len(entries)
    /\ entries[e].out # "none" => entries'[e].out = entries[e].out
    /\ entries[e].st = "settled" => entries'[e].st = "settled"
    /\ entries[e].st = "running" => entries'[e].st # "queued"

C34_ExactlyOnce == []C34_Placement /\ [][C34_Step]_vars

\* one entry has settled, the next is running and a third waits behind it
C34_Witness ==
  /\ Len(entries) = 3
  /\ entries[1].st = "settled"
  /\ entries[2].st = "running" /\ entries[2].behind >= 1
  /\ queue = <<3>>

\* C35: every entity constructed on a start cell that is inside the grid and
\* carries no 'Props' tile is, in every state, on a cell inside the grid that
\* carries no 'Props' tile.
C35_StaysOnWalkableGrid ==
  \A pid \in 1..Len(players) :
    /\ InBounds(players[pid].gridX, players[pid].gridY)
    /\ <<players[pid].gridX, players[pid].gridY>> \notin PropsCells

\* the entity has left its start cell, a later move to a cell outside the
\* grid or onto a 'Props' tile was refused, and the entity is at rest
C35_Witness ==
  /\ isoPlayer # 0
  /\ lastMoveTo.pid = isoPlayer /\ ~lastMoveTo.ok
  /\ ~lastMoveTo.before.isMoving
  /\ \/ ~InBounds(lastMoveTo.x, lastMoveTo.y)
     \/ <<lastMoveTo.x, lastMoveTo.y>> \in PropsCells
  /\ <<players[isoPlayer].gridX, players[isoPlayer].gridY>> #
       <<LevelStart(1).x, LevelStart(1).y>>

\* ------------------------------------------------- facing direction names
\* GameAPI.face called with a name that is no key of dirMap but is a
\* property every object inherits
faceInherited == \E dirName \in ObjectPrototypeNames : Enqueue("face", 0, 0, dirName)

NextFace ==
  \/ Preload
  \/ Create
  \/ rotateLeft
  \/ rotateRight
  \/ moveForward
  \/ face
  \/ faceInherited
  \/ resetLevel
  \/ TweenComplete
  \/ TimerFire
  \/ MultiStepResume
  \/ DrainResume

SpecFace == Init /\ [][NextFace]_vars

\* C36: the direction of every entity is one of 0, 1, 2, 3, and a face call
\* with a name that is none of the eight direction names resolves false and
\* leaves the direction as it was.
C36_DirectionInRange ==
  /\ \A pid \in 1..Len(players) : players[pid].direction \in 0..3
  /\ \A e \in EntryIds :
       (/\ entries[e].op = "face" /\ entries[e].st = "settled"
        /\ entries[e].p0.pid # 0
        /\ entries[e].name \notin DOMAIN dirMap) => entries[e].out = "false"

\* ------------------------------------------------ the two turns as a group
\* the sense of a queued turn as the delta _rotate passes to rotate
DeltaOf(op) == IF op = "rotateLeft" THEN 0 - 1 ELSE 1

\* entry e is the last one started, or the next one started on entity `pid`
\* too: the direction `pid` had once entry e had started is on record
Recorded(e, pid) ==
  (e < Len(entries) /\ entries[e + 1].p0.pid # 0) => entries[e + 1].p0.pid = pid

\* that direction: the one the next entry found when it started, or the
\* entity's direction now
DirectionAfter(e, pid) ==
  IF e < Len(entries) /\ entries[e + 1].p0.pid # 0
  THEN entries[e + 1].p0.d
  ELSE players[pid].direction

TurnOn(e, pid) ==
  /\ e \in EntryIds
  /\ entries[e].op \in {"rotateLeft", "rotateRight"}
  /\ entries[e].p0.pid = pid

\* C37: the left and the right turn are mutually inverse 4-cycles on
\* {0,1,2,3}: for each direction, a left turn then a right turn and a right
\* turn then a left turn give the direction back, one, two and three turns
\* in one sense give a different direction and four give it back; and in
\* every run a started rotateLeft / rotateRight pair of consecutive queue
\* entries on one entity leaves it facing as before the pair, and three
\* consecutive started turns in one sense leave it one such turn short of
\* the direction before them.
C37_InverseFourCycles ==
  /\ \A d \in 0..3 : \A delta \in {0 - 1, 1} :
       LET d1 == RotateDir(d, delta)
           d2 == RotateDir(d1, delta)
           d3 == RotateDir(d2, delta)
       IN /\ RotateDir(d1, 0 - delta) = d
          /\ d1 \in 0..3 /\ d1 # d /\ d2 # d /\ d3 # d
          /\ RotateDir(d3, delta) = d
  /\ \A e \in EntryIds : \A pid \in 1..Len(players) :
       (/\ TurnOn(e, pid) /\ TurnOn(e + 1, pid)
        /\ entries[e].p0.d \in 0..3) =>
         /\ (entries[e].op # entries[e + 1].op /\ Recorded(e + 1, pid)) =>
              DirectionAfter(e + 1, pid) = entries[e].p0.d
         /\ (/\ TurnOn(e + 2, pid) /\ Recorded(e + 2, pid)
             /\ entries[e].op = entries[e + 1].op
             /\ entries[e + 1].op = entries[e + 2].op) =>
              RotateDir(DirectionAfter(e + 2, pid), DeltaOf(entries[e].op))
                = entries[e].p0.d

\* a right turn and then a left turn have settled on one entity that
\* started facing east (1) and faces east again
C37_Witness ==
  \E e \in EntryIds : \E pid \in 1..Len(players) :
    /\ TurnOn(e, pid) /\ TurnOn(e + 1, pid)
    /\ entries[e].op = "rotateRight" /\ entries[e + 1].op = "rotateLeft"
    /\ entries[e + 1].st = "settled"
    /\ entries[e].p0.d = 1
    /\ Recorded(e + 1, pid)
    /\ players[pid].direction = 1

\* three left turns have started in a row on one entity
C37_WitnessThreeTurns ==
  \E pid \in 1..Len(players) :
    /\ TurnOn(1, pid) /\ TurnOn(2, pid) /\ TurnOn(3, pid)
    /\ \A e \in 1..3 : entries[e].op = "rotateLeft"
    /\ players[pid].direction = 2

\* ------------------------------------------------------- frame conditions
TurnOps == {"rotateLeft", "rotateRight", "face"}
MoveOps == {"moveForward", "moveBackward", "setPosition"}

\* the cell of the entity `pid` once the entries up to `e` have started
PositionAfter(e, pid) ==
  IF e < Len(entries) /\ entries[e + 1].p0.pid # 0
  THEN <<entries[e + 1].p0.x, entries[e + 1].p0.y>>
  ELSE <<players[pid].gridX, players[pid].gridY>>

SamePlace(p, q) ==
  /\ p.gridX = q.gridX /\ p.gridY = q.gridY /\ p.isMoving = q.isMoving

\* C38: in every reachable state, a rotate or a face called on any entity
\* leaves its gridX, gridY and in-transition flag as they are, and a moveTo
\* called on it, accepted or refused, and the completion of any move in
\* flight leave its direction as it is; and in every run, the entity a
\* started rotateLeft / rotateRight / face entry acted on is in the cell the
\* entry found it in when the next entry starts, and the entity a started
\* moveForward / moveBackward / setPosition entry acted on still faces, at
\* every later moment up to the start of the next entry, the way the entry
\* found it facing.
C38_FrameConditions ==
  /\ \A pid \in 1..Len(players) :
       /\ \A delta \in {0 - 1, 1} :
            SamePlace(RotateCall(Here, pid, delta, 0).players[pid], players[pid])
       /\ \A dirName \in FaceInputs \cup ObjectPrototypeNames :
            SamePlace(FaceCall(Here, pid, dirName, 0).players[pid], players[pid])
       /\ \A t \in DirectMoveInputs \cup SetPositionInputs :
            MoveToCall(Here, pid, t[1], t[2], 0).S.players[pid].direction
              = players[pid].direction
  /\ \A k \in 1..Len(pending) :
       pending[k].kind = "tween" =>
         OnComplete(players[pending[k].pid], pending[k].x, pending[k].y).direction
           = players[pending[k].pid].direction
  /\ \A e \in EntryIds :
       LET pid == entries[e].p0.pid
       IN (pid # 0 /\ Recorded(e, pid)) =>
            /\ entries[e].op \in TurnOps =>
                 PositionAfter(e, pid) = <<entries[e].p0.x, entries[e].p0.y>>
            /\ entries[e].op \in MoveOps =>
                 DirectionAfter(e, pid) = entries[e].p0.d

\* a moveForward of two steps from a direction other than south has settled
\* true, the entity two cells on and facing as before, after a turn that
\* left it in its cell
C38_Witness ==
  \E pid \in 1..Len(players) :
    /\ Len(entries) = 2
    /\ entries[1].op \in TurnOps /\ entries[1].p0.pid = pid
    /\ entries[2].op = "moveForward" /\ entries[2].p0.pid = pid
    /\ entries[2].a = 2 /\ entries[2].out = "true"
    /\ entries[2].p0.d # 0
    /\ <<entries[2].p0.x, entries[2].p0.y>> = <<entries[1].p0.x, entries[1].p0.y>>
    /\ players[pid].direction = entries[2].p0.d
    /\ <<players[pid].gridX, players[pid].gridY>>
         # <<entries[2].p0.x, entries[2].p0.y>>

\* ---------------------------------- records of sessions with other levels
\* stored records whose currentLevel is an integer that numbers no level
OutOfRangeInputs ==
  {Stringify(Progress(maxLevels + 1, <<>>)), Stringify(Progress(0 - 2, <<1>>))}

InitRange == stored \in StoredInputs \cup OutOfRangeInputs /\ InitUnmade

\* the level manager over records holding any integer currentLevel
SpecRange == InitRange /\ [][NextLevels]_vars

\* C39: once the level manager is constructed, 1 <= currentLevel <=
\* maxLevels in every state, and after a goToLevel or nextLevel that
\* returned true the stored record's currentLevel is the one in memory.
C39_CurrentLevelExists ==
  lmPhase = "made" =>
    /\ currentLevel \in 1..maxLevels
    /\ (lmLast.op \in {"goToLevel", "nextLevel"} /\ lmLast.ret) =>
         /\ stored.kind = "json"
         /\ stored.value.hasCurrent
         /\ stored.value.currentLevel = currentLevel

====
